---- MODULE Spec2Model ----
(***************************************************************************)
(* Contribution-cycle ledger and balance reconciliation of simple-chama    *)
(* (controllers/contributionController.js, controllers/chamaController.js).*)
(*                                                                         *)
(* The database tables are the state.  Every request handler is a process  *)
(* whose position (pc) advances one storage call (one await) at a time, so *)
(* that overlapping requests interleave exactly where the code suspends.   *)
(* Amounts are whole currency units; on whole units the code's 0.01        *)
(* tolerance test is computed as written (NearlyEqual).                    *)
(***************************************************************************)
EXTENDS Integers, Sequences, FiniteSets, TLC

VARIABLES
    balance,        \* members.contribution_balance, per member id
    ledger,         \* contribution_ledger rows, in commit order
    rowLock,        \* members row lock: the process whose open transaction wrote the row, or 0
    cycles,         \* contribution_cycles rows
    cycleTypes,     \* cycle_types rows, per cycle_id in insertion order
    contributions,  \* contributions rows
    transactions,   \* transactions rows, in insertion order
    nextId,         \* AUTO_INCREMENT counters of contribution_cycles and contributions
    pc,             \* per process: the handler position
    loc,            \* per process: the handler's request and local variables
    faults,         \* storage failures injected so far
    hist,           \* responses sent so far, in order
    callLimit       \* the number of requests the behaviour serves

vars == <<balance, ledger, rowLock, cycles, cycleTypes, contributions,
          transactions, nextId, pc, loc, faults, hist, callLimit>>

\* the tables, and the model's request budget, which no handler changes
dbvars == <<balance, ledger, cycles, cycleTypes, contributions, transactions, callLimit>>

----------------------------------------------------------------------------
(* Bounds of the model *)

\* storage failures injected in one behaviour
MaxFaults == 1
\* requests served in one behaviour of the balance specification
MaxCalls == 3

\* cycles created in one behaviour of the cycle specification
MaxCycles == 2
\* requests served in one behaviour of the cycle specification
MaxCycleCalls == 4
\* the same when the requests overlap
MaxOverlappingCalls == 3
\* payments served one after the other in one behaviour
MaxPayments == 2
\* payments served in one behaviour in which statements may throw
MaxFailingPayments == 1
\* payments that overlap in one behaviour
MaxOverlappingPayments == 2
\* requests served in one behaviour of the contribution administration
MaxContributionCalls == 3

Procs == {1, 2}
\* the process that serves the requests when requests do not overlap
SeqProcs == {1}
Members == {1, 2}
\* ids a request can name: the members, and one id no member row has
MemberIds == Members \cup {9}
Chamas == {1}
\* SQL NULL, and JavaScript null / undefined
NULL == 0

----------------------------------------------------------------------------
(* Arithmetic helpers *)

Abs(x) == IF x < 0 THEN -x ELSE x
Min(a, b) == IF a < b THEN a ELSE b
Max(a, b) == IF a > b THEN a ELSE b

RECURSIVE SumAmounts(_)
\* SQL SUM(amount), or reduce((sum, c) => sum + parseFloat(c.amount), 0), over rows
SumAmounts(S) ==
    IF S = {} THEN 0
    ELSE LET r == CHOOSE x \in S : TRUE IN r.amount + SumAmounts(S \ {r})

RECURSIVE SumSeqAmounts(_)
\* the same over a sequence of rows
SumSeqAmounts(s) == IF s = <<>> THEN 0 ELSE Head(s).amount + SumSeqAmounts(Tail(s))

\* Math.abs(a - b) < 0.01, on whole units
NearlyEqual(a, b) == Abs(a - b) * 100 < 1

----------------------------------------------------------------------------
(* Process locals *)

Loc0 ==
    [ op |-> "none", member |-> NULL, amount |-> 0,
      \* updateMemberBalance's frame
      uMember |-> NULL, uAmount |-> 0, uDescription |-> "", uCycle |-> NULL,
      uContribution |-> NULL,
      currentBalance |-> 0, newBalance |-> 0, ledgerRow |-> <<>>,
      ret |-> "idle", catch |-> "idle",
      \* the cycle handlers' locals
      chamaId |-> NULL, cycleId |-> NULL, status |-> "", nextCycleNumber |-> 0,
      types |-> <<>>, activeBefore |-> {},
      \* recordContribution's request and locals
      typeId |-> NULL, applyToBalance |-> FALSE, paymentReference |-> NULL,
      currentCycleId |-> NULL, cycleNumber |-> 0, cycleTypesRead |-> <<>>,
      rcCurrentBalance |-> 0, remainingPayment |-> 0, contributionIds |-> <<>>,
      balanceAdjustment |-> 0, rolloverAmount |-> 0, nextCycleId |-> NULL,
      rolloverId |-> NULL, i |-> 0,
      \* handleTypeContribution's arguments
      hTypeId |-> NULL, hAmount |-> 0, hExpected |-> 0, hExisting |-> {},
      \* updateContribution / deleteContribution / updateContributionStatus:
      \* the contribution as read, the amount of the request
      row |-> <<>>, reqAmount |-> <<>>,
      \* processScheduledContributions: the members still to process, as read,
      \* the cycle's total, what the member still owes, results.details
      todo |-> <<>>, totalExpected |-> 0, remainingToPay |-> 0, details |-> <<>>,
      \* the tables as the request found them (observation only)
      before |-> <<>> ]

\* the tables as a request finds them
Tables ==
    [ balance |-> balance, ledger |-> ledger, cycles |-> cycles,
      contributions |-> contributions, transactions |-> transactions ]

\* requests started so far: those answered and those in flight
Started == Len(hist) + Cardinality({q \in Procs : pc[q] # "idle"})

----------------------------------------------------------------------------
(* updateMemberBalance: src/controllers/contributionController.js 11-62 *)

\* the caller's call: fill the frame and enter the helper
CallUpdateMemberBalance(l, memberId, amount, description, cycleId, contributionId, ret, catch) ==
    [l EXCEPT !.uMember = memberId, !.uAmount = amount, !.uDescription = description,
              !.uCycle = cycleId, !.uContribution = contributionId,
              !.ret = ret, !.catch = catch]

\* lines 15-24: beginTransaction, SELECT contribution_balance (a plain,
\* non-locking read of the committed row), newBalance = currentBalance + amount
updateMemberBalance_Select(p) ==
    /\ pc[p] = "umb_select"
    /\ LET cur == IF loc[p].uMember \in Members THEN balance[loc[p].uMember] ELSE 0
       IN loc' = [loc EXCEPT ![p].currentBalance = cur,
                             ![p].newBalance = cur + loc[p].uAmount]
    /\ pc' = [pc EXCEPT ![p] = "umb_update"]
    /\ UNCHANGED <<dbvars, rowLock, nextId, faults, hist>>

\* lines 27-30: UPDATE members SET contribution_balance = newBalance; the
\* statement waits for the row lock of another open transaction
updateMemberBalance_Update(p) ==
    /\ pc[p] = "umb_update"
    /\ LET m == loc[p].uMember IN
         IF m \in Members
         THEN /\ rowLock[m] \in {0, p}
              /\ rowLock' = [rowLock EXCEPT ![m] = p]
         ELSE UNCHANGED rowLock
    /\ pc' = [pc EXCEPT ![p] = "umb_ledger"]
    /\ UNCHANGED <<dbvars, nextId, loc, faults, hist>>

LedgerRow(l) ==
    [ member |-> l.uMember, cycle |-> l.uCycle, contribution |-> l.uContribution,
      amount |-> l.uAmount, before |-> l.currentBalance, after |-> l.newBalance,
      description |-> l.uDescription ]

\* lines 33-49: INSERT INTO contribution_ledger succeeds
updateMemberBalance_Ledger(p) ==
    /\ pc[p] = "umb_ledger"
    /\ loc' = [loc EXCEPT ![p].ledgerRow = <<LedgerRow(loc[p])>>]
    /\ pc' = [pc EXCEPT ![p] = "umb_commit"]
    /\ UNCHANGED <<dbvars, rowLock, nextId, faults, hist>>

\* lines 50-52: the INSERT throws; the error is caught, logged and dropped
updateMemberBalance_LedgerError(p) ==
    /\ pc[p] = "umb_ledger"
    /\ faults < MaxFaults
    /\ faults' = faults + 1
    /\ loc' = [loc EXCEPT ![p].ledgerRow = <<>>]
    /\ pc' = [pc EXCEPT ![p] = "umb_commit"]
    /\ UNCHANGED <<dbvars, rowLock, nextId, hist>>

\* lines 54-55: commit makes the transaction's writes visible, return newBalance
updateMemberBalance_Commit(p) ==
    /\ pc[p] = "umb_commit"
    /\ LET m == loc[p].uMember IN
         /\ balance' = IF m \in Members THEN [balance EXCEPT ![m] = loc[p].newBalance]
                       ELSE balance
         /\ rowLock' = IF m \in Members THEN [rowLock EXCEPT ![m] = 0] ELSE rowLock
    /\ ledger' = ledger \o loc[p].ledgerRow
    /\ pc' = [pc EXCEPT ![p] = loc[p].ret]
    /\ UNCHANGED <<cycles, cycleTypes, contributions, transactions, nextId, loc,
                   faults, hist, callLimit>>

\* lines 56-58: SELECT, UPDATE or commit throws; rollback and rethrow to the caller
updateMemberBalance_Throw(p) ==
    /\ pc[p] \in {"umb_select", "umb_update", "umb_commit"}
    /\ faults < MaxFaults
    /\ faults' = faults + 1
    /\ rowLock' = [m \in Members |-> IF rowLock[m] = p THEN 0 ELSE rowLock[m]]
    /\ pc' = [pc EXCEPT ![p] = loc[p].catch]
    /\ UNCHANGED <<dbvars, nextId, loc, hist>>

\* the steps of a call in which no statement throws
updateMemberBalance(p) ==
    \/ updateMemberBalance_Select(p)
    \/ updateMemberBalance_Update(p)
    \/ updateMemberBalance_Ledger(p)
    \/ updateMemberBalance_Commit(p)

\* the steps in which a statement throws
updateMemberBalance_Failing(p) ==
    \/ updateMemberBalance_LedgerError(p)
    \/ updateMemberBalance_Throw(p)

----------------------------------------------------------------------------
(* adjustMemberBalance: src/controllers/contributionController.js 2553-2617 *)

AdjustAmounts == {100, -50}

\* lines 2554-2582: validation, admin permission, then updateMemberBalance
adjustMemberBalance_Start(p, memberId, amount) ==
    /\ pc[p] = "idle"
    /\ Started < callLimit
    /\ IF memberId \notin Members
       THEN \* checkMemberPermission: member not found, 403
            /\ hist' = Append(hist, [proc |-> p, op |-> "adjustMemberBalance",
                                     member |-> memberId, amount |-> amount,
                                     status |-> 403, newBalance |-> 0])
            /\ UNCHANGED <<pc, loc, callLimit>>
       ELSE /\ loc' = [loc EXCEPT ![p] =
                         CallUpdateMemberBalance(
                           [Loc0 EXCEPT !.op = "adjustMemberBalance",
                                        !.member = memberId, !.amount = amount],
                           memberId, amount, "reason", NULL, NULL,
                           "adj_transaction", "adj_catch")]
            /\ pc' = [pc EXCEPT ![p] = "umb_select"]
            /\ UNCHANGED hist
    /\ UNCHANGED <<dbvars, rowLock, nextId, faults>>

\* lines 2585-2608: INSERT INTO transactions, respond with newBalance
adjustMemberBalance_Transaction(p) ==
    /\ pc[p] = "adj_transaction"
    /\ transactions' = Append(transactions,
                          [type |-> "adjustment", amount |-> loc[p].amount])
    /\ hist' = Append(hist, [proc |-> p, op |-> "adjustMemberBalance",
                             member |-> loc[p].member, amount |-> loc[p].amount,
                             status |-> 200, newBalance |-> loc[p].newBalance])
    /\ pc' = [pc EXCEPT ![p] = "idle"]
    /\ loc' = [loc EXCEPT ![p] = Loc0]
    /\ UNCHANGED <<balance, ledger, cycles, cycleTypes, contributions, rowLock,
                   nextId, faults, callLimit>>

\* lines 2610-2616: catch, respond 500
adjustMemberBalance_Catch(p) ==
    /\ pc[p] = "adj_catch"
    /\ hist' = Append(hist, [proc |-> p, op |-> "adjustMemberBalance",
                             member |-> loc[p].member, amount |-> loc[p].amount,
                             status |-> 500, newBalance |-> 0])
    /\ pc' = [pc EXCEPT ![p] = "idle"]
    /\ loc' = [loc EXCEPT ![p] = Loc0]
    /\ UNCHANGED <<dbvars, rowLock, nextId, faults>>

adjustMemberBalance(p) ==
    \/ \E m \in MemberIds, a \in AdjustAmounts :
          adjustMemberBalance_Start(p, m, a)
    \/ adjustMemberBalance_Transaction(p)
    \/ adjustMemberBalance_Catch(p)

----------------------------------------------------------------------------
(* The members and chamas of the model; the rows exist before any request *)

\* members.chama_id
MemberChama == [m \in Members |-> 1]
\* chamas.contribution_amount
ChamaContributionAmount == [ch \in Chamas |-> 1000]

\* ids of the cycle rows a behaviour can hold
CycleIds == 1 .. MaxCycles

CycleStatuses == {"upcoming", "active", "completed", "cancelled"}

\* ActiveCycles with the upcoming cycles counted as active
ActiveOrUpcomingCycles(chamaId) ==
    {c \in cycles : c.chama = chamaId /\ c.status \in {"active", "upcoming"}}

CycleRows(cycleId) == {c \in cycles : c.id = cycleId}
ActiveCycles(chamaId) == {c \in cycles : c.chama = chamaId /\ c.status = "active"}

\* UPDATE contribution_cycles SET status = 'completed'
\*  WHERE chama_id = ? AND status = 'active'
CompleteActive(rows, chamaId) ==
    { IF c.chama = chamaId /\ c.status = "active"
      THEN [c EXCEPT !.status = "completed"] ELSE c : c \in rows }

\* UPDATE contribution_cycles SET status = ? WHERE id = ?
SetStatus(rows, cycleId, status) ==
    { IF c.id = cycleId THEN [c EXCEPT !.status = status] ELSE c : c \in rows }

\* SELECT MAX(cycle_number) ... WHERE chama_id = ?, NULL read as 0
LastCycleNumber(chamaId) ==
    LET ns == {c.number : c \in {x \in cycles : x.chama = chamaId}}
    IN IF ns = {} THEN 0 ELSE CHOOSE n \in ns : \A k \in ns : k <= n

\* cycle rows the requests in flight are still to insert
PendingInserts ==
    Cardinality({q \in Procs : pc[q] \in {"cou_selectMax", "cou_demote", "cou_insert",
                                          "ccc_write"}})

\* SELECT ... FROM cycle_types WHERE cycle_id = ?
CycleTypesOf(cycleId) == IF cycleId \in DOMAIN cycleTypes THEN cycleTypes[cycleId] ELSE <<>>

\* DELETE FROM cycle_types WHERE cycle_id = ?
DeleteCycleTypes(cycleId) ==
    IF cycleId \in DOMAIN cycleTypes THEN [cycleTypes EXCEPT ![cycleId] = <<>>]
    ELSE cycleTypes

\* INSERT INTO cycle_types (cycle_id, type_id, amount)
InsertCycleType(cycleId, typeId, amount) ==
    IF cycleId \in DOMAIN cycleTypes
    THEN [cycleTypes EXCEPT ![cycleId] = Append(@, [type |-> typeId, amount |-> amount])]
    ELSE cycleTypes

Response(p, op, status) == [proc |-> p, op |-> op, status |-> status]

----------------------------------------------------------------------------
(* createOrUpdateCycle: src/controllers/contributionController.js 560-683 *)

\* the `types` a request carries: none, or an array of {typeId, amount}
TypesInputs == {"absent", <<[typeId |-> 1, amount |-> 1000]>>}

\* lines 561-587: the request, the admin check
createOrUpdateCycle_Start(p, chamaId, cycleId, status, types) ==
    /\ pc[p] = "idle"
    /\ Started < callLimit
    /\ cycleId = NULL => nextId.cycle + PendingInserts <= MaxCycles
    /\ loc' = [loc EXCEPT ![p] = [Loc0 EXCEPT !.op = "createOrUpdateCycle",
                 !.chamaId = chamaId, !.cycleId = cycleId, !.status = status,
                 !.types = types]]
    /\ pc' = [pc EXCEPT ![p] = IF cycleId # NULL THEN "cou_update" ELSE "cou_selectMax"]
    /\ UNCHANGED <<dbvars, rowLock, nextId, faults, hist>>

AfterCycleWrite(types) == IF types = "absent" THEN "cou_respond" ELSE "cou_typesDelete"

\* lines 589-597: UPDATE ... SET status = ? WHERE id = ? AND chama_id = ?
createOrUpdateCycle_Update(p) ==
    /\ pc[p] = "cou_update"
    /\ cycles' = { IF c.id = loc[p].cycleId /\ c.chama = loc[p].chamaId
                   THEN [c EXCEPT !.status = loc[p].status] ELSE c : c \in cycles }
    /\ pc' = [pc EXCEPT ![p] = AfterCycleWrite(loc[p].types)]
    /\ UNCHANGED <<balance, ledger, cycleTypes, contributions, transactions, rowLock,
                   nextId, loc, faults, hist, callLimit>>

\* lines 600-607: SELECT MAX(cycle_number), nextCycleNumber
createOrUpdateCycle_SelectMax(p) ==
    /\ pc[p] = "cou_selectMax"
    /\ loc' = [loc EXCEPT ![p].nextCycleNumber = LastCycleNumber(loc[p].chamaId) + 1]
    /\ pc' = [pc EXCEPT ![p] = IF loc[p].status = "active" THEN "cou_demote"
                                ELSE "cou_insert"]
    /\ UNCHANGED <<dbvars, rowLock, nextId, faults, hist>>

\* lines 610-617: if activating the new cycle, close the active ones
createOrUpdateCycle_Demote(p) ==
    /\ pc[p] = "cou_demote"
    /\ cycles' = CompleteActive(cycles, loc[p].chamaId)
    /\ pc' = [pc EXCEPT ![p] = "cou_insert"]
    /\ UNCHANGED <<balance, ledger, cycleTypes, contributions, transactions, rowLock,
                   nextId, loc, faults, hist, callLimit>>

\* lines 619-634: INSERT INTO contribution_cycles
createOrUpdateCycle_Insert(p) ==
    /\ pc[p] = "cou_insert"
    /\ cycles' = cycles \cup
          {[id |-> nextId.cycle, chama |-> loc[p].chamaId,
            number |-> loc[p].nextCycleNumber, status |-> loc[p].status,
            collected |-> 0]}
    /\ nextId' = [nextId EXCEPT !.cycle = @ + 1]
    /\ loc' = [loc EXCEPT ![p].cycleId = nextId.cycle]
    /\ pc' = [pc EXCEPT ![p] = AfterCycleWrite(loc[p].types)]
    /\ UNCHANGED <<balance, ledger, cycleTypes, contributions, transactions, rowLock,
                   faults, hist, callLimit>>

\* lines 638-640: DELETE FROM cycle_types WHERE cycle_id = ?
createOrUpdateCycle_TypesDelete(p) ==
    /\ pc[p] = "cou_typesDelete"
    /\ cycleTypes' = DeleteCycleTypes(loc[p].cycleId)
    /\ pc' = [pc EXCEPT ![p] = IF loc[p].types = <<>> THEN "cou_respond"
                                ELSE "cou_typesInsert"]
    /\ UNCHANGED <<balance, ledger, cycles, contributions, transactions, rowLock,
                   nextId, loc, faults, hist, callLimit>>

\* lines 643-650: one INSERT INTO cycle_types per entry with a typeId and an amount
createOrUpdateCycle_TypesInsert(p) ==
    /\ pc[p] = "cou_typesInsert"
    /\ LET t == Head(loc[p].types) IN
         cycleTypes' = IF t.typeId # NULL /\ t.amount # 0
                       THEN InsertCycleType(loc[p].cycleId, t.typeId, t.amount)
                       ELSE cycleTypes
    /\ loc' = [loc EXCEPT ![p].types = Tail(@)]
    /\ pc' = [pc EXCEPT ![p] = IF Tail(loc[p].types) = <<>> THEN "cou_respond"
                                ELSE "cou_typesInsert"]
    /\ UNCHANGED <<balance, ledger, cycles, contributions, transactions, rowLock,
                   nextId, faults, hist, callLimit>>

\* lines 654-675: read the cycle back, respond
createOrUpdateCycle_Respond(p) ==
    /\ pc[p] = "cou_respond"
    /\ hist' = Append(hist, Response(p, "createOrUpdateCycle", 200))
    /\ pc' = [pc EXCEPT ![p] = "idle"]
    /\ loc' = [loc EXCEPT ![p] = Loc0]
    /\ UNCHANGED <<dbvars, rowLock, nextId, faults>>

createOrUpdateCycle(p) ==
    \/ \E ch \in Chamas, id \in {NULL} \cup CycleIds, st \in CycleStatuses,
          ts \in TypesInputs : createOrUpdateCycle_Start(p, ch, id, st, ts)
    \/ createOrUpdateCycle_Update(p)
    \/ createOrUpdateCycle_SelectMax(p)
    \/ createOrUpdateCycle_Demote(p)
    \/ createOrUpdateCycle_Insert(p)
    \/ createOrUpdateCycle_TypesDelete(p)
    \/ createOrUpdateCycle_TypesInsert(p)
    \/ createOrUpdateCycle_Respond(p)

----------------------------------------------------------------------------
(* updateCycleStatus: src/controllers/contributionController.js 884-950 *)

\* updateCycleStatus_Start with the deactivation of the active cycles placed
\* before the lookup of the cycle
updateCycleStatus_StartDemotingFirst(p, cycleId, status) ==
    /\ pc[p] = "idle"
    /\ Started < callLimit
    /\ cycles' = IF status = "active"
                 THEN {IF c.status = "active" THEN [c EXCEPT !.status = "completed"]
                       ELSE c : c \in cycles}
                 ELSE cycles
    /\ IF CycleRows(cycleId) = {}
       THEN /\ hist' = Append(hist, Response(p, "updateCycleStatus", 404))
            /\ UNCHANGED <<pc, loc>>
       ELSE LET c == CHOOSE x \in CycleRows(cycleId) : TRUE IN
            /\ loc' = [loc EXCEPT ![p] = [Loc0 EXCEPT !.op = "updateCycleStatus",
                         !.cycleId = cycleId, !.status = status, !.chamaId = c.chama,
                         !.activeBefore = {x.id : x \in ActiveCycles(c.chama)},
                         !.before = Tables]]
            /\ pc' = [pc EXCEPT ![p] = "ucs_set"]
            /\ UNCHANGED hist
    /\ UNCHANGED <<balance, ledger, cycleTypes, contributions, transactions, rowLock,
                   nextId, faults, callLimit>>

\* lines 885-914: SELECT chama_id of the cycle, 404 when absent, the admin check
updateCycleStatus_Start(p, cycleId, status) ==
    /\ pc[p] = "idle"
    /\ Started < callLimit
    /\ IF CycleRows(cycleId) = {}
       THEN /\ hist' = Append(hist, Response(p, "updateCycleStatus", 404))
            /\ UNCHANGED <<pc, loc, callLimit>>
       ELSE LET c == CHOOSE x \in CycleRows(cycleId) : TRUE IN
            /\ loc' = [loc EXCEPT ![p] = [Loc0 EXCEPT !.op = "updateCycleStatus",
                         !.cycleId = cycleId, !.status = status, !.chamaId = c.chama,
                         !.activeBefore = {x.id : x \in ActiveCycles(c.chama)},
                         !.before = Tables]]
            /\ pc' = [pc EXCEPT ![p] = IF status = "active" THEN "ucs_demote"
                                        ELSE "ucs_set"]
            /\ UNCHANGED hist
    /\ UNCHANGED <<dbvars, rowLock, nextId, faults>>

\* updateCycleStatus_Demote with the UPDATE limited to the latest active cycle
\* (an ORDER BY cycle_number DESC LIMIT 1, as the active-cycle lookups have)
updateCycleStatus_DemoteLatest(p) ==
    /\ pc[p] = "ucs_demote"
    /\ LET n == LastCycleNumber(loc[p].chamaId) IN
         cycles' = { IF c.chama = loc[p].chamaId /\ c.status = "active" /\ c.number = n
                     THEN [c EXCEPT !.status = "completed"] ELSE c : c \in cycles }
    /\ pc' = [pc EXCEPT ![p] = "ucs_set"]
    /\ UNCHANGED <<balance, ledger, cycleTypes, contributions, transactions, rowLock,
                   nextId, loc, faults, hist, callLimit>>

\* lines 916-924: if activating a cycle, deactivate others
updateCycleStatus_Demote(p) ==
    /\ pc[p] = "ucs_demote"
    /\ cycles' = CompleteActive(cycles, loc[p].chamaId)
    /\ pc' = [pc EXCEPT ![p] = "ucs_set"]
    /\ UNCHANGED <<balance, ledger, cycleTypes, contributions, transactions, rowLock,
                   nextId, loc, faults, hist, callLimit>>

\* updateCycleStatus_Set with the UPDATE limited to cycles that are not
\* completed (WHERE id = ? AND status <> 'completed')
updateCycleStatus_SetUnlessCompleted(p) ==
    /\ pc[p] = "ucs_set"
    /\ cycles' = { IF c.id = loc[p].cycleId /\ c.status # "completed"
                   THEN [c EXCEPT !.status = loc[p].status] ELSE c : c \in cycles }
    /\ pc' = [pc EXCEPT ![p] = "ucs_respond"]
    /\ UNCHANGED <<balance, ledger, cycleTypes, contributions, transactions, rowLock,
                   nextId, loc, faults, hist, callLimit>>

\* lines 926-930: UPDATE contribution_cycles SET status = ? WHERE id = ?
updateCycleStatus_Set(p) ==
    /\ pc[p] = "ucs_set"
    /\ cycles' = SetStatus(cycles, loc[p].cycleId, loc[p].status)
    /\ pc' = [pc EXCEPT ![p] = "ucs_respond"]
    /\ UNCHANGED <<balance, ledger, cycleTypes, contributions, transactions, rowLock,
                   nextId, loc, faults, hist, callLimit>>

\* lines 932-942: read the cycle back, respond
updateCycleStatus_Respond(p) ==
    /\ pc[p] = "ucs_respond"
    /\ hist' = Append(hist, Response(p, "updateCycleStatus", 200))
    /\ pc' = [pc EXCEPT ![p] = "idle"]
    /\ loc' = [loc EXCEPT ![p] = Loc0]
    /\ UNCHANGED <<dbvars, rowLock, nextId, faults>>

updateCycleStatus(p) ==
    \/ \E id \in CycleIds, st \in CycleStatuses : updateCycleStatus_Start(p, id, st)
    \/ updateCycleStatus_Demote(p)
    \/ updateCycleStatus_Set(p)
    \/ updateCycleStatus_Respond(p)

----------------------------------------------------------------------------
(* deleteCycle: src/controllers/contributionController.js 957-1031 *)

\* lines 958-988: SELECT chama_id, status of the cycle, 404 when absent
deleteCycle_Start(p, cycleId) ==
    /\ pc[p] = "idle"
    /\ Started < callLimit
    /\ IF CycleRows(cycleId) = {}
       THEN /\ hist' = Append(hist, Response(p, "deleteCycle", 404))
            /\ UNCHANGED <<pc, loc, callLimit>>
       ELSE LET c == CHOOSE x \in CycleRows(cycleId) : TRUE IN
            /\ loc' = [loc EXCEPT ![p] = [Loc0 EXCEPT !.op = "deleteCycle",
                         !.cycleId = cycleId, !.status = c.status, !.chamaId = c.chama]]
            /\ pc' = [pc EXCEPT ![p] = "dc_count"]
            /\ UNCHANGED hist
    /\ UNCHANGED <<dbvars, rowLock, nextId, faults>>

\* lines 990-1013: SELECT COUNT(*) of the cycle's contributions and branch
deleteCycle_Count(p) ==
    /\ pc[p] = "dc_count"
    /\ LET count == Cardinality({c \in contributions : c.cycle = loc[p].cycleId}) IN
         IF count > 0
         THEN IF loc[p].status # "cancelled"
              THEN /\ pc' = [pc EXCEPT ![p] = "dc_cancel"]
                   /\ UNCHANGED <<hist, loc, callLimit>>
              ELSE /\ hist' = Append(hist, Response(p, "deleteCycle", 400))
                   /\ pc' = [pc EXCEPT ![p] = "idle"]
                   /\ loc' = [loc EXCEPT ![p] = Loc0]
         ELSE /\ pc' = [pc EXCEPT ![p] = "dc_deleteTypes"]
              /\ UNCHANGED <<hist, loc, callLimit>>
    /\ UNCHANGED <<dbvars, rowLock, nextId, faults>>

\* lines 998-1007: mark as cancelled instead
deleteCycle_Cancel(p) ==
    /\ pc[p] = "dc_cancel"
    /\ cycles' = SetStatus(cycles, loc[p].cycleId, "cancelled")
    /\ hist' = Append(hist, Response(p, "deleteCycle", 200))
    /\ pc' = [pc EXCEPT ![p] = "idle"]
    /\ loc' = [loc EXCEPT ![p] = Loc0]
    /\ UNCHANGED <<balance, ledger, cycleTypes, contributions, transactions, rowLock,
                   nextId, faults, callLimit>>

\* line 1016: DELETE FROM cycle_types WHERE cycle_id = ?
deleteCycle_DeleteTypes(p) ==
    /\ pc[p] = "dc_deleteTypes"
    /\ cycleTypes' = DeleteCycleTypes(loc[p].cycleId)
    /\ pc' = [pc EXCEPT ![p] = "dc_delete"]
    /\ UNCHANGED <<balance, ledger, cycles, contributions, transactions, rowLock,
                   nextId, loc, faults, hist, callLimit>>

\* lines 1017-1022: DELETE FROM contribution_cycles WHERE id = ?
deleteCycle_Delete(p) ==
    /\ pc[p] = "dc_delete"
    /\ cycles' = {c \in cycles : c.id # loc[p].cycleId}
    /\ hist' = Append(hist, Response(p, "deleteCycle", 200))
    /\ pc' = [pc EXCEPT ![p] = "idle"]
    /\ loc' = [loc EXCEPT ![p] = Loc0]
    /\ UNCHANGED <<balance, ledger, cycleTypes, contributions, transactions, rowLock,
                   nextId, faults, callLimit>>

deleteCycle(p) ==
    \/ \E id \in CycleIds : deleteCycle_Start(p, id)
    \/ deleteCycle_Count(p)
    \/ deleteCycle_Cancel(p)
    \/ deleteCycle_DeleteTypes(p)
    \/ deleteCycle_Delete(p)

----------------------------------------------------------------------------
(* createContributionCycle: src/controllers/chamaController.js 709-862 *)

\* lines 718-748: beginTransaction, the admin check, SELECT the last
\* cycle_number (a plain read of the committed rows), nextCycleNumber
createContributionCycle_Start(p, chamaId) ==
    /\ pc[p] = "idle"
    /\ Started < callLimit
    /\ nextId.cycle + PendingInserts <= MaxCycles
    /\ loc' = [loc EXCEPT ![p] = [Loc0 EXCEPT !.op = "createContributionCycle",
                 !.chamaId = chamaId,
                 !.nextCycleNumber = LastCycleNumber(chamaId) + 1]]
    /\ pc' = [pc EXCEPT ![p] = "ccc_write"]
    /\ UNCHANGED <<dbvars, rowLock, nextId, faults, hist>>

RECURSIVE PendingRows(_, _, _, _)
\* lines 803-816: one 'pending' contributions row per member of the chama,
\* ids in insertion order
PendingRows(ms, firstId, cycleId, amount) ==
    IF ms = {} THEN {}
    ELSE LET m == CHOOSE x \in ms : \A y \in ms : x <= y IN
         {[id |-> firstId, member |-> m, cycle |-> cycleId, type |-> NULL,
           amount |-> amount, expected |-> 0, status |-> "pending",
           method |-> "none", reference |-> NULL]}
         \cup PendingRows(ms \ {m}, firstId + 1, cycleId, amount)

\* lines 750-829: close the active cycles, INSERT the new cycle as 'active',
\* INSERT the members' contributions rows, commit; the transaction's writes
\* become visible together
createContributionCycle_Write(p) ==
    /\ pc[p] = "ccc_write"
    /\ LET ch == loc[p].chamaId
           ms == {m \in Members : MemberChama[m] = ch}
       IN /\ cycles' = CompleteActive(cycles, ch) \cup
                {[id |-> nextId.cycle, chama |-> ch,
                  number |-> loc[p].nextCycleNumber, status |-> "active",
                  collected |-> 0]}
          /\ contributions' = contributions \cup
                PendingRows(ms, nextId.contribution, nextId.cycle,
                            ChamaContributionAmount[ch])
          /\ nextId' = [cycle |-> nextId.cycle + 1,
                        contribution |-> nextId.contribution + Cardinality(ms)]
    /\ hist' = Append(hist, Response(p, "createContributionCycle", 201))
    /\ pc' = [pc EXCEPT ![p] = "idle"]
    /\ loc' = [loc EXCEPT ![p] = Loc0]
    /\ UNCHANGED <<balance, ledger, cycleTypes, transactions, rowLock, faults, callLimit>>

createContributionCycle(p) ==
    \/ \E ch \in Chamas : createContributionCycle_Start(p, ch)
    \/ createContributionCycle_Write(p)

----------------------------------------------------------------------------
(* handleTypeContribution: src/controllers/contributionController.js 67-142 *)

\* SELECT * FROM contributions WHERE member_id = ? AND cycle_id = ? AND type_id = ?
ContributionsOf(rows, memberId, cycleId, typeId) ==
    {r \in rows : r.member = memberId /\ r.cycle = cycleId /\ r.type = typeId}

\* existingContributions[0]: the row with the lowest id
FirstRow(rows) == CHOOSE r \in rows : \A x \in rows : r.id <= x.id

\* lines 77-84: the status of a new row
InsertStatus(amount, expectedAmount) ==
    IF NearlyEqual(amount, expectedAmount) THEN "paid"
    ELSE IF amount <= 0 THEN "pending" ELSE "partial"

\* UpdateStatus without the test for the expected amount
UpdateStatusNeverPaid(newAmount, expectedAmount) ==
    IF newAmount > 0 THEN "partial" ELSE "pending"

\* lines 90-91: the status of an updated row
UpdateStatus(newAmount, expectedAmount) ==
    IF NearlyEqual(newAmount, expectedAmount) THEN "paid"
    ELSE IF newAmount > 0 THEN "partial" ELSE "pending"

\* UpdateExisting with the payment in the place of the accumulated amount
UpdateExistingOverwriting(rows, existing, amount, expectedAmount) ==
    { IF r.id = existing.id
      THEN [r EXCEPT !.amount = amount,
                     !.status = UpdateStatus(amount, expectedAmount)]
      ELSE r : r \in rows }

\* lines 86-98: UPDATE contributions SET amount = ?, status = ? WHERE id = ?,
\* newAmount computed from the row as the caller read it
UpdateExisting(rows, existing, amount, expectedAmount) ==
    LET newAmount == existing.amount + amount IN
    { IF r.id = existing.id
      THEN [r EXCEPT !.amount = newAmount,
                     !.status = UpdateStatus(newAmount, expectedAmount)]
      ELSE r : r \in rows }

\* lines 102-122: INSERT INTO contributions
NewContribution(id, l) ==
    [ id |-> id, member |-> l.member, cycle |-> l.currentCycleId, type |-> l.hTypeId,
      amount |-> l.hAmount, expected |-> l.hExpected,
      status |-> InsertStatus(l.hAmount, l.hExpected),
      method |-> "cash", reference |-> l.paymentReference ]

\* lines 1271-1273: totalPaid = amount - remainingPayment
EnterCollected(l) ==
    <<IF l.amount - l.remainingPayment > 0 THEN "rc_collected" ELSE "rc_transaction", l>>

\* lines 1213-1214: if (remainingPayment > 0)
EnterStep4(l) ==
    IF l.remainingPayment > 0 THEN <<"rc_nextCycle", l>> ELSE EnterCollected(l)

\* EnterStep3 with the loop entered at the last type of the cycle
EnterStep3FromLast(l) ==
    IF l.remainingPayment > 0 /\ ~l.applyToBalance /\ l.cycleTypesRead # <<>>
    THEN <<"rc_loopSelect", [l EXCEPT !.i = Len(l.cycleTypesRead)]>>
    ELSE EnterStep4(l)

\* lines 1183-1185: if (remainingPayment > 0 && !applyToBalance), the first type
EnterStep3(l) ==
    IF l.remainingPayment > 0 /\ ~l.applyToBalance /\ l.cycleTypesRead # <<>>
    THEN <<"rc_loopSelect", [l EXCEPT !.i = 1]>>
    ELSE EnterStep4(l)

\* lines 1184-1185: the next type of the for-of loop, or the break
LoopNext(l) ==
    IF l.i < Len(l.cycleTypesRead) /\ l.remainingPayment > 0
    THEN <<"rc_loopSelect", [l EXCEPT !.i = @ + 1]>>
    ELSE EnterStep4(l)

\* lines 1164-1175: if (applyToBalance && currentBalance < 0 && remainingPayment > 0)
EnterStep2(l) ==
    IF l.applyToBalance /\ l.rcCurrentBalance < 0 /\ l.remainingPayment > 0
    THEN <<"umb_select",
           CallUpdateMemberBalance(l, l.member,
              Min(l.remainingPayment, Abs(l.rcCurrentBalance)), "Balance clearance",
              l.currentCycleId, NULL, "rc_cleared", "rc_catch")>>
    ELSE EnterStep3(l)

\* lines 1158-1159 and 1206-1207: contributions.push(contribution),
\* remainingPayment -= paymentForType, then on to what follows the call
ReturnFromHandleType(l, id) ==
    LET l2 == [l EXCEPT !.contributionIds = Append(@, id),
                        !.remainingPayment = @ - l.hAmount]
    IN IF l.i = 0 THEN EnterStep2(l2) ELSE LoopNext(l2)

\* lines 73-135: one transaction holding one statement: the UPDATE of the
\* existing row or the INSERT of a new one
handleTypeContribution(p) ==
    /\ pc[p] = "htc"
    /\ LET l == loc[p]
           update == l.hExisting # {}
           id == IF update THEN FirstRow(l.hExisting).id ELSE nextId.contribution
           next == ReturnFromHandleType(l, id)
       IN /\ contributions' =
                IF update
                THEN UpdateExisting(contributions, FirstRow(l.hExisting), l.hAmount,
                                    l.hExpected)
                ELSE contributions \cup {NewContribution(id, l)}
          /\ nextId' = IF update THEN nextId
                       ELSE [nextId EXCEPT !.contribution = @ + 1]
          /\ pc' = [pc EXCEPT ![p] = next[1]]
          /\ loc' = [loc EXCEPT ![p] = next[2]]
    /\ UNCHANGED <<balance, ledger, cycles, cycleTypes, transactions, rowLock, faults,
                   hist, callLimit>>

\* lines 136-138: the statement throws; rollback and rethrow to recordContribution
handleTypeContribution_Throw(p) ==
    /\ pc[p] = "htc"
    /\ faults < MaxFaults
    /\ faults' = faults + 1
    /\ pc' = [pc EXCEPT ![p] = "rc_catch"]
    /\ UNCHANGED <<dbvars, rowLock, nextId, loc, hist>>

----------------------------------------------------------------------------
(* recordContribution: src/controllers/contributionController.js 1042-1358 *)

\* cycleTypes.find(t => t.id === parseInt(typeId))?.expected_amount || 0
ExpectedOf(types, typeId) ==
    LET idx == {k \in DOMAIN types : types[k].type = typeId}
    IN IF idx = {} THEN 0
       ELSE types[CHOOSE k \in idx : \A j \in idx : k <= j].amount

\* the response of recordContribution: status and payment_summary
RcResponse(p, l, status, newBalance) ==
    [ proc |-> p, op |-> "recordContribution", status |-> status,
      member |-> l.member, cycleId |-> l.cycleId, currentCycleId |-> l.currentCycleId,
      typeId |-> l.typeId, amount |-> l.amount, applyToBalance |-> l.applyToBalance,
      paymentReference |-> l.paymentReference,
      applied_to_contributions |->
          l.amount - l.remainingPayment - l.rolloverAmount - l.balanceAdjustment,
      applied_to_balance |-> l.balanceAdjustment,
      rollover_amount |-> l.rolloverAmount,
      remaining_unallocated |-> l.remainingPayment,
      new_balance |-> newBalance,
      contributionIds |-> l.contributionIds,
      next_cycle_id |-> l.nextCycleId,
      before |-> l.before ]

\* lines 1043-1091: the request, validation, checkMemberPermission, and the
\* active cycle of the chama when the request names no cycle
recordContribution_Start(p, memberId, cycleId, typeId, amount, applyToBalance, paymentReference) ==
    /\ pc[p] = "idle"
    /\ Started < callLimit
    /\ LET l == [Loc0 EXCEPT !.op = "recordContribution", !.chamaId = MemberChama[1],
                   !.member = memberId, !.cycleId = cycleId, !.typeId = typeId,
                   !.amount = amount, !.applyToBalance = applyToBalance,
                   !.paymentReference = paymentReference, !.before = Tables]
           active == ActiveCycles(l.chamaId)
       IN IF amount = 0
          THEN /\ hist' = Append(hist, RcResponse(p, l, 400, 0))
               /\ UNCHANGED <<pc, loc>>
          ELSE IF memberId \notin Members
          THEN /\ hist' = Append(hist, RcResponse(p, l, 403, 0))
               /\ UNCHANGED <<pc, loc>>
          ELSE IF cycleId = NULL /\ active = {}
          THEN /\ hist' = Append(hist, RcResponse(p, l, 400, 0))
               /\ UNCHANGED <<pc, loc>>
          ELSE /\ loc' = [loc EXCEPT ![p] = [l EXCEPT !.currentCycleId =
                     IF cycleId # NULL THEN cycleId
                     ELSE \* ORDER BY cycle_number DESC LIMIT 1
                          (CHOOSE c \in active :
                              \A x \in active : x.number < c.number
                                 \/ (x.number = c.number /\ x.id >= c.id)).id]]
               /\ pc' = [pc EXCEPT ![p] = "rc_cycle"]
               /\ UNCHANGED hist
    /\ UNCHANGED <<dbvars, rowLock, nextId, faults>>

\* lines 1093-1120: the cycle row (404 when absent) and its types
recordContribution_Cycle(p) ==
    /\ pc[p] = "rc_cycle"
    /\ LET l == loc[p] IN
         IF CycleRows(l.currentCycleId) = {}
         THEN /\ hist' = Append(hist, RcResponse(p, l, 404, 0))
              /\ pc' = [pc EXCEPT ![p] = "idle"]
              /\ loc' = [loc EXCEPT ![p] = Loc0]
         ELSE /\ loc' = [loc EXCEPT ![p].cycleNumber =
                            (CHOOSE c \in CycleRows(l.currentCycleId) : TRUE).number,
                                    ![p].cycleTypesRead = CycleTypesOf(l.currentCycleId)]
              /\ pc' = [pc EXCEPT ![p] = "rc_balance"]
              /\ UNCHANGED hist
    /\ UNCHANGED <<dbvars, rowLock, nextId, faults>>

\* lines 1122-1138: the member's current balance, remainingPayment = amount,
\* then step 1 when a type is named and applyToBalance is off
recordContribution_Balance(p) ==
    /\ pc[p] = "rc_balance"
    /\ LET l == [loc[p] EXCEPT !.rcCurrentBalance = balance[loc[p].member],
                               !.remainingPayment = loc[p].amount]
           next == IF l.typeId # NULL /\ ~l.applyToBalance
                   THEN <<"rc_typeSelect", l>> ELSE EnterStep2(l)
       IN /\ pc' = [pc EXCEPT ![p] = next[1]]
          /\ loc' = [loc EXCEPT ![p] = next[2]]
    /\ UNCHANGED <<dbvars, rowLock, nextId, faults, hist>>

\* lines 1141-1157 and 1187-1204: the rows already recorded for the type, what
\* the type still lacks, and the call of handleTypeContribution for
\* min(remainingPayment, remainingForType)
SelectForType(l, typeId, typeExpected, otherwise) ==
    LET existing == ContributionsOf(contributions, l.member, l.currentCycleId, typeId)
        alreadyPaid == SumAmounts(existing)
        remainingForType == Max(0, typeExpected - alreadyPaid)
    IN IF l.remainingPayment > 0 /\ remainingForType > 0
       THEN <<"htc", [l EXCEPT !.hTypeId = typeId,
                               !.hAmount = Min(l.remainingPayment, remainingForType),
                               !.hExpected = typeExpected,
                               !.hExisting = existing]>>
       ELSE otherwise

\* lines 1138-1162: step 1, apply to the named type
recordContribution_TypeSelect(p) ==
    /\ pc[p] = "rc_typeSelect"
    /\ LET l == loc[p]
           next == SelectForType(l, l.typeId, ExpectedOf(l.cycleTypesRead, l.typeId),
                                 EnterStep2(l))
       IN /\ pc' = [pc EXCEPT ![p] = next[1]]
          /\ loc' = [loc EXCEPT ![p] = next[2]]
    /\ UNCHANGED <<dbvars, rowLock, nextId, faults, hist>>

\* lines 1177-1178: after the balance clearance
recordContribution_Cleared(p) ==
    /\ pc[p] = "rc_cleared"
    /\ LET l == loc[p]
           next == EnterStep3([l EXCEPT !.balanceAdjustment = l.uAmount,
                                        !.remainingPayment = @ - l.uAmount])
       IN /\ pc' = [pc EXCEPT ![p] = next[1]]
          /\ loc' = [loc EXCEPT ![p] = next[2]]
    /\ UNCHANGED <<dbvars, rowLock, nextId, faults, hist>>

\* lines 1183-1211: step 3, one type of the cycle per iteration
recordContribution_LoopSelect(p) ==
    /\ pc[p] = "rc_loopSelect"
    /\ LET l == loc[p]
           type == l.cycleTypesRead[l.i]
           next == SelectForType(l, type.type, type.amount, LoopNext(l))
       IN /\ pc' = [pc EXCEPT ![p] = next[1]]
          /\ loc' = [loc EXCEPT ![p] = next[2]]
    /\ UNCHANGED <<dbvars, rowLock, nextId, faults, hist>>

\* NextCyclesOf with cycle_number >= ? in the place of cycle_number > ?
NextCyclesOfFromCurrent(chamaId, cycleNumber) ==
    {c \in cycles : c.chama = chamaId /\ c.number >= cycleNumber
                    /\ c.status \in {"upcoming", "active"}}

\* lines 1216-1221: cycles of the chama with a greater cycle_number that are
\* upcoming or active
NextCyclesOf(chamaId, cycleNumber) ==
    {c \in cycles : c.chama = chamaId /\ c.number > cycleNumber
                    /\ c.status \in {"upcoming", "active"}}

\* ORDER BY cycle_number ASC LIMIT 1
LowestCycle(rows) ==
    CHOOSE c \in rows : \A x \in rows : x.number > c.number
                           \/ (x.number = c.number /\ x.id >= c.id)

\* lines 1214-1226 and 1256-1264: step 4, look for the next cycle; without one
\* the overpayment goes to the member's balance
recordContribution_NextCycle(p) ==
    /\ pc[p] = "rc_nextCycle"
    /\ LET l == loc[p]
           nextCycles == NextCyclesOf(l.chamaId, l.cycleNumber)
       IN IF nextCycles # {}
          THEN /\ loc' = [loc EXCEPT ![p].nextCycleId = LowestCycle(nextCycles).id]
               /\ pc' = [pc EXCEPT ![p] = "rc_rolloverInsert"]
          ELSE /\ loc' = [loc EXCEPT ![p] =
                     CallUpdateMemberBalance(l, l.member, l.remainingPayment,
                        "Overpayment", l.currentCycleId, NULL, "rc_credited", "rc_catch")]
               /\ pc' = [pc EXCEPT ![p] = "umb_select"]
    /\ UNCHANGED <<dbvars, rowLock, nextId, faults, hist>>

\* lines 1228-1252: INSERT the rollover contribution into the next cycle, then
\* update the member's balance for the rollover
recordContribution_RolloverInsert(p) ==
    /\ pc[p] = "rc_rolloverInsert"
    /\ LET l == loc[p] IN
         /\ contributions' = contributions \cup
               {[ id |-> nextId.contribution, member |-> l.member,
                  cycle |-> l.nextCycleId, type |-> NULL,
                  amount |-> l.remainingPayment, expected |-> l.remainingPayment,
                  status |-> "paid", method |-> "rollover",
                  reference |-> l.paymentReference ]}
         /\ nextId' = [nextId EXCEPT !.contribution = @ + 1]
         /\ loc' = [loc EXCEPT ![p] =
               CallUpdateMemberBalance([l EXCEPT !.rolloverId = nextId.contribution],
                  l.member, l.remainingPayment, "Rollover", l.currentCycleId,
                  nextId.contribution, "rc_rolled", "rc_catch")]
         /\ pc' = [pc EXCEPT ![p] = "umb_select"]
    /\ UNCHANGED <<balance, ledger, cycles, cycleTypes, transactions, rowLock, faults,
                   hist, callLimit>>

\* lines 1254-1255: after the rollover
recordContribution_Rolled(p) ==
    /\ pc[p] = "rc_rolled"
    /\ LET l == loc[p]
           next == EnterCollected([l EXCEPT !.rolloverAmount = l.remainingPayment,
                                            !.remainingPayment = 0])
       IN /\ pc' = [pc EXCEPT ![p] = next[1]]
          /\ loc' = [loc EXCEPT ![p] = next[2]]
    /\ UNCHANGED <<dbvars, rowLock, nextId, faults, hist>>

\* lines 1266-1267: after the balance credit
recordContribution_Credited(p) ==
    /\ pc[p] = "rc_credited"
    /\ LET l == loc[p]
           next == EnterCollected([l EXCEPT !.balanceAdjustment = @ + l.remainingPayment,
                                            !.remainingPayment = 0])
       IN /\ pc' = [pc EXCEPT ![p] = next[1]]
          /\ loc' = [loc EXCEPT ![p] = next[2]]
    /\ UNCHANGED <<dbvars, rowLock, nextId, faults, hist>>

\* lines 1271-1280: UPDATE contribution_cycles SET collected_amount =
\* collected_amount + totalPaid WHERE id = currentCycleId
recordContribution_Collected(p) ==
    /\ pc[p] = "rc_collected"
    /\ LET l == loc[p]
           totalPaid == l.amount - l.remainingPayment
       IN cycles' = { IF c.id = l.currentCycleId
                      THEN [c EXCEPT !.collected = @ + totalPaid] ELSE c : c \in cycles }
    /\ pc' = [pc EXCEPT ![p] = "rc_transaction"]
    /\ UNCHANGED <<balance, ledger, cycleTypes, contributions, transactions, rowLock,
                   nextId, loc, faults, hist, callLimit>>

\* lines 1282-1293: INSERT INTO transactions
recordContribution_Transaction(p) ==
    /\ pc[p] = "rc_transaction"
    /\ transactions' = Append(transactions,
          [type |-> "contribution", amount |-> loc[p].amount - loc[p].remainingPayment])
    /\ pc' = [pc EXCEPT ![p] = "rc_respond"]
    /\ UNCHANGED <<balance, ledger, cycles, cycleTypes, contributions, rowLock,
                   nextId, loc, faults, hist, callLimit>>

\* lines 1295-1348: read the member, the contributions and the balance back,
\* respond 201 with the payment summary
recordContribution_Respond(p) ==
    /\ pc[p] = "rc_respond"
    /\ hist' = Append(hist, RcResponse(p, loc[p], 201, balance[loc[p].member]))
    /\ pc' = [pc EXCEPT ![p] = "idle"]
    /\ loc' = [loc EXCEPT ![p] = Loc0]
    /\ UNCHANGED <<dbvars, rowLock, nextId, faults>>

\* lines 1350-1357: catch, respond 500
recordContribution_Catch(p) ==
    /\ pc[p] = "rc_catch"
    /\ hist' = Append(hist, RcResponse(p, loc[p], 500, 0))
    /\ pc' = [pc EXCEPT ![p] = "idle"]
    /\ loc' = [loc EXCEPT ![p] = Loc0]
    /\ UNCHANGED <<dbvars, rowLock, nextId, faults>>

\* a db.execute of recordContribution throws: control passes to the catch
recordContribution_Throw(p) ==
    /\ pc[p] \in {"rc_cycle", "rc_balance", "rc_typeSelect", "rc_loopSelect",
                  "rc_nextCycle", "rc_rolloverInsert", "rc_collected",
                  "rc_transaction", "rc_respond"}
    /\ faults < MaxFaults
    /\ faults' = faults + 1
    /\ pc' = [pc EXCEPT ![p] = "rc_catch"]
    /\ UNCHANGED <<dbvars, rowLock, nextId, loc, hist>>

\* the steps of recordContribution after the request has been taken
recordContribution(p) ==
    \/ recordContribution_Cycle(p)
    \/ recordContribution_Balance(p)
    \/ recordContribution_TypeSelect(p)
    \/ recordContribution_Cleared(p)
    \/ recordContribution_LoopSelect(p)
    \/ recordContribution_NextCycle(p)
    \/ recordContribution_RolloverInsert(p)
    \/ recordContribution_Rolled(p)
    \/ recordContribution_Credited(p)
    \/ recordContribution_Collected(p)
    \/ recordContribution_Transaction(p)
    \/ recordContribution_Respond(p)
    \/ handleTypeContribution(p)

----------------------------------------------------------------------------
(* updateContribution: src/controllers/contributionController.js 1365-1512 *)

\* SELECT c.* FROM contributions c WHERE c.id = ?
ContributionRows(id) == {r \in contributions : r.id = id}

\* an answer that ends the request of process p
Answer(p, op, status) ==
    /\ hist' = Append(hist, Response(p, op, status))
    /\ pc' = [pc EXCEPT ![p] = "idle"]
    /\ loc' = [loc EXCEPT ![p] = Loc0]

\* lines 1366-1417: the contribution (404 when absent); when the request
\* carries an amount that differs from the row's, updateMemberBalance with the
\* difference. amount and status are <<>> and "undefined" when not sent.
updateContribution_Start(p, contributionId, amount, status) ==
    /\ pc[p] = "idle"
    /\ Started < callLimit
    /\ IF ContributionRows(contributionId) = {}
       THEN /\ hist' = Append(hist, Response(p, "updateContribution", 404))
            /\ UNCHANGED <<pc, loc>>
       ELSE LET contribution == CHOOSE r \in ContributionRows(contributionId) : TRUE
                l == [Loc0 EXCEPT !.op = "updateContribution",
                         !.row = <<contribution>>, !.reqAmount = amount,
                         !.status = status, !.before = Tables]
            IN /\ IF amount # <<>> /\ contribution.amount # amount[1]
                  THEN /\ loc' = [loc EXCEPT ![p] =
                            CallUpdateMemberBalance(l, contribution.member,
                               amount[1] - contribution.amount,
                               "Contribution adjustment", contribution.cycle,
                               contributionId, "uc_update", "uc_catch")]
                       /\ pc' = [pc EXCEPT ![p] = "umb_select"]
                  ELSE /\ loc' = [loc EXCEPT ![p] = l]
                       /\ pc' = [pc EXCEPT ![p] =
                             IF amount # <<>> \/ status # "undefined"
                             THEN "uc_update" ELSE "uc_respond"]
               /\ UNCHANGED hist
    /\ UNCHANGED <<dbvars, rowLock, nextId, faults>>

\* lines 1419-1461: UPDATE contributions SET amount = ?, status = ? WHERE id = ?
updateContribution_Update(p) ==
    /\ pc[p] = "uc_update"
    /\ LET l == loc[p] IN
         /\ contributions' =
               { IF r.id = l.row[1].id
                 THEN [r EXCEPT !.amount = IF l.reqAmount # <<>> THEN l.reqAmount[1] ELSE @,
                                !.status = IF l.status # "undefined" THEN l.status ELSE @]
                 ELSE r : r \in contributions }
         /\ pc' = [pc EXCEPT ![p] = IF l.reqAmount # <<>> THEN "uc_collected"
                                     ELSE "uc_respond"]
    /\ UNCHANGED <<balance, ledger, cycles, cycleTypes, transactions, rowLock, nextId,
                   loc, faults, hist, callLimit>>

\* the amounts of the paid contributions of a cycle, summed
PaidSum(cycleId) ==
    SumAmounts({r \in contributions : r.cycle = cycleId /\ r.status = "paid"})

\* lines 1463-1476: collected_amount = the sum of the cycle's paid contributions
updateContribution_Collected(p) ==
    /\ pc[p] = "uc_collected"
    /\ cycles' = { IF c.id = loc[p].row[1].cycle
                   THEN [c EXCEPT !.collected = PaidSum(c.id)] ELSE c : c \in cycles }
    /\ pc' = [pc EXCEPT ![p] = "uc_respond"]
    /\ UNCHANGED <<balance, ledger, cycleTypes, contributions, transactions, rowLock,
                   nextId, loc, faults, hist, callLimit>>

\* lines 1479-1503: read the contribution and the balance back, respond
updateContribution_Respond(p) ==
    /\ pc[p] = "uc_respond"
    /\ Answer(p, "updateContribution", 200)
    /\ UNCHANGED <<dbvars, rowLock, nextId, faults>>

updateContribution(p) ==
    \/ updateContribution_Update(p)
    \/ updateContribution_Collected(p)
    \/ updateContribution_Respond(p)

----------------------------------------------------------------------------
(* deleteContribution: src/controllers/contributionController.js 1519-1600 *)

\* lines 1520-1565: the contribution (404 when absent), then updateMemberBalance
\* with the negated amount
deleteContribution_Start(p, contributionId) ==
    /\ pc[p] = "idle"
    /\ Started < callLimit
    /\ IF ContributionRows(contributionId) = {}
       THEN /\ hist' = Append(hist, Response(p, "deleteContribution", 404))
            /\ UNCHANGED <<pc, loc>>
       ELSE LET contribution == CHOOSE r \in ContributionRows(contributionId) : TRUE
                l == [Loc0 EXCEPT !.op = "deleteContribution",
                         !.row = <<contribution>>, !.before = Tables]
            IN /\ loc' = [loc EXCEPT ![p] =
                     CallUpdateMemberBalance(l, contribution.member,
                        0 - contribution.amount, "Contribution deleted",
                        contribution.cycle, contributionId, "del_collected", "del_catch")]
               /\ pc' = [pc EXCEPT ![p] = "umb_select"]
               /\ UNCHANGED hist
    /\ UNCHANGED <<dbvars, rowLock, nextId, faults>>

\* lines 1566-1574: if the contribution was paid,
\* collected_amount = GREATEST(0, collected_amount - amount)
deleteContribution_Collected(p) ==
    /\ pc[p] = "del_collected"
    /\ loc[p].row[1].status = "paid"
    /\ cycles' = { IF c.id = loc[p].row[1].cycle
                   THEN [c EXCEPT !.collected = Max(0, @ - loc[p].row[1].amount)]
                   ELSE c : c \in cycles }
    /\ pc' = [pc EXCEPT ![p] = "del_delete"]
    /\ UNCHANGED <<balance, ledger, cycleTypes, contributions, transactions, rowLock,
                   nextId, loc, faults, hist, callLimit>>

\* lines 1576-1592: DELETE FROM contributions WHERE id = ?, read the balance
\* back, respond
deleteContribution_Delete(p) ==
    /\ \/ pc[p] = "del_delete"
       \/ pc[p] = "del_collected" /\ loc[p].row[1].status # "paid"
    /\ contributions' = {r \in contributions : r.id # loc[p].row[1].id}
    /\ Answer(p, "deleteContribution", 200)
    /\ UNCHANGED <<balance, ledger, cycles, cycleTypes, transactions, rowLock, nextId,
                   faults, callLimit>>

deleteContribution(p) ==
    \/ deleteContribution_Collected(p)
    \/ deleteContribution_Delete(p)

----------------------------------------------------------------------------
(* updateContributionStatus: src/controllers/contributionController.js 1919-2006 *)

\* lines 1920-1954: the contribution (404 when absent)
updateContributionStatus_Start(p, contributionId, status) ==
    /\ pc[p] = "idle"
    /\ Started < callLimit
    /\ IF ContributionRows(contributionId) = {}
       THEN /\ hist' = Append(hist, Response(p, "updateContributionStatus", 404))
            /\ UNCHANGED <<pc, loc>>
       ELSE /\ loc' = [loc EXCEPT ![p] = [Loc0 EXCEPT !.op = "updateContributionStatus",
                         !.row = <<CHOOSE r \in ContributionRows(contributionId) : TRUE>>,
                         !.status = status, !.before = Tables]]
            /\ pc' = [pc EXCEPT ![p] = "cs_update"]
            /\ UNCHANGED hist
    /\ UNCHANGED <<dbvars, rowLock, nextId, faults>>

\* lines 1956-1963 and 1997-2000: UPDATE contributions SET status = ? WHERE
\* id = ?; respond unless the contribution becomes paid
updateContributionStatus_Update(p) ==
    /\ pc[p] = "cs_update"
    /\ LET l == loc[p] IN
         /\ contributions' = { IF r.id = l.row[1].id THEN [r EXCEPT !.status = l.status]
                               ELSE r : r \in contributions }
         /\ IF l.status = "paid" /\ l.row[1].status # "paid"
            THEN /\ pc' = [pc EXCEPT ![p] = "cs_transaction"]
                 /\ UNCHANGED <<loc, hist>>
            ELSE Answer(p, "updateContributionStatus", 200)
    /\ UNCHANGED <<balance, ledger, cycles, cycleTypes, transactions, rowLock, nextId,
                   faults, callLimit>>

\* lines 1964-1985: INSERT INTO transactions, then updateMemberBalance with the
\* contribution's amount
updateContributionStatus_Transaction(p) ==
    /\ pc[p] = "cs_transaction"
    /\ LET l == loc[p] IN
         /\ transactions' = Append(transactions,
               [type |-> "contribution", amount |-> l.row[1].amount])
         /\ loc' = [loc EXCEPT ![p] =
               CallUpdateMemberBalance(l, l.row[1].member, l.row[1].amount,
                  "Contribution marked as paid", l.row[1].cycle, l.row[1].id,
                  "cs_collected", "cs_catch")]
         /\ pc' = [pc EXCEPT ![p] = "umb_select"]
    /\ UNCHANGED <<balance, ledger, cycles, cycleTypes, contributions, rowLock, nextId,
                   faults, hist, callLimit>>

\* lines 1987-2000: collected_amount = collected_amount + amount, respond
updateContributionStatus_Collected(p) ==
    /\ pc[p] = "cs_collected"
    /\ cycles' = { IF c.id = loc[p].row[1].cycle
                   THEN [c EXCEPT !.collected = @ + loc[p].row[1].amount]
                   ELSE c : c \in cycles }
    /\ Answer(p, "updateContributionStatus", 200)
    /\ UNCHANGED <<balance, ledger, cycleTypes, contributions, transactions, rowLock,
                   nextId, faults, callLimit>>

updateContributionStatus(p) ==
    \/ updateContributionStatus_Update(p)
    \/ updateContributionStatus_Transaction(p)
    \/ updateContributionStatus_Collected(p)

----------------------------------------------------------------------------
(* getMemberContributionStatus: src/controllers/contributionController.js 2017-2200 *)

\* lines 2071-2073: activeCycles[0] of ORDER BY cycle_number DESC LIMIT 1
LatestCycle(rows) ==
    CHOOSE c \in rows : \A x \in rows : x.number < c.number
                           \/ (x.number = c.number /\ x.id >= c.id)

\* lines 2081-2082: totalExpected = cycleTypes.reduce(sum + expected_amount)
TotalExpected(cycleId) == SumSeqAmounts(CycleTypesOf(cycleId))

\* lines 2083-2084: totalPaid = the amounts of the member's contributions of
\* the cycle with status 'paid', summed
TotalPaid(memberId, cycleId) ==
    SumAmounts({r \in contributions :
                   r.member = memberId /\ r.cycle = cycleId /\ r.status = "paid"})

\* line 2085: totalOutstanding = Math.max(0, totalExpected - totalPaid)
TotalOutstanding(memberId, cycleId) ==
    Max(0, TotalExpected(cycleId) - TotalPaid(memberId, cycleId))

\* lines 2017-2121: the member's status in the active cycle of the chama; the
\* handler only reads
getMemberContributionStatus(p, memberId) ==
    /\ pc[p] = "idle"
    /\ Started < callLimit
    /\ LET active == ActiveCycles(MemberChama[memberId])
           cycleId == IF active = {} THEN NULL ELSE LatestCycle(active).id
       IN hist' = Append(hist,
             [ proc |-> p, op |-> "getMemberContributionStatus", status |-> 200,
               member |-> memberId, cycle |-> cycleId,
               total_outstanding |->
                  IF cycleId = NULL THEN 0 ELSE TotalOutstanding(memberId, cycleId) ])
    /\ UNCHANGED <<dbvars, rowLock, nextId, pc, loc, faults>>

----------------------------------------------------------------------------
(* processScheduledContributions: src/controllers/contributionController.js 2726-2918 *)

RECURSIVE MemberRowsFrom(_)
\* the member rows of a set of ids with their balances, in id order
MemberRowsFrom(ids) ==
    IF ids = {} THEN <<>>
    ELSE LET m == CHOOSE x \in ids : \A y \in ids : x <= y
         IN <<[id |-> m, contribution_balance |-> balance[m]]>>
               \o MemberRowsFrom(ids \ {m})

\* lines 2727-2766: chamaId is required (400), the admin check, the active cycle
\* of the chama (400 when there is none)
processScheduledContributions_Start(p, chamaId) ==
    /\ pc[p] = "idle"
    /\ Started < callLimit
    /\ IF chamaId = NULL \/ ActiveCycles(chamaId) = {}
       THEN /\ hist' = Append(hist, Response(p, "processScheduledContributions", 400))
            /\ UNCHANGED <<pc, loc>>
       ELSE LET activeCycle == LatestCycle(ActiveCycles(chamaId)) IN
            /\ loc' = [loc EXCEPT ![p] =
                  [Loc0 EXCEPT !.op = "processScheduledContributions",
                               !.chamaId = chamaId,
                               !.currentCycleId = activeCycle.id,
                               !.cycleNumber = activeCycle.number,
                               !.before = Tables]]
            /\ pc' = [pc EXCEPT ![p] = "ps_members"]
            /\ UNCHANGED hist
    /\ UNCHANGED <<dbvars, rowLock, nextId, faults>>

\* lines 2769-2775: the members of the chama with their balances
processScheduledContributions_Members(p) ==
    /\ pc[p] = "ps_members"
    /\ loc' = [loc EXCEPT ![p].todo =
          MemberRowsFrom({m \in Members : MemberChama[m] = loc[p].chamaId})]
    /\ pc' = [pc EXCEPT ![p] = "ps_expected"]
    /\ UNCHANGED <<dbvars, rowLock, nextId, faults, hist>>

\* for (const member of members): the next member, or the end of the loop
NextMember(l) == IF l.todo = <<>> THEN "ps_collected" ELSE "ps_paid"

\* results.details.push(detail); continue with the next member
PushDetail(l, detail) ==
    [l EXCEPT !.details = Append(@, detail), !.todo = Tail(@)]

\* lines 2778-2793: SELECT SUM(amount) FROM cycle_types, results = {...}
processScheduledContributions_Expected(p) ==
    /\ pc[p] = "ps_expected"
    /\ loc' = [loc EXCEPT ![p].totalExpected =
                              SumSeqAmounts(CycleTypesOf(loc[p].currentCycleId)),
                          ![p].details = <<>>]
    /\ pc' = [pc EXCEPT ![p] = NextMember(loc[p])]
    /\ UNCHANGED <<dbvars, rowLock, nextId, faults, hist>>

\* lines 2799-2806: SUM(amount) of the member's paid rows of the cycle
AlreadyPaid(memberId, cycleId) ==
    SumAmounts({r \in contributions :
                   r.member = memberId /\ r.cycle = cycleId /\ r.status = "paid"})

\* lines 2796-2830 and 2863-2874: what the member has paid and still owes;
\* already_paid, or updateMemberBalance with the negated remainder when the
\* balance read at lines 2769-2775 covers it, or pending
processScheduledContributions_Paid(p) ==
    /\ pc[p] = "ps_paid"
    /\ LET l == loc[p]
           member == Head(l.todo)
           alreadyPaid == AlreadyPaid(member.id, l.currentCycleId)
           remainingToPay == Max(0, l.totalExpected - alreadyPaid)
       IN IF remainingToPay <= 0
          THEN LET l2 == PushDetail(l, [member_id |-> member.id,
                                        status |-> "already_paid",
                                        amount_paid |-> alreadyPaid])
               IN /\ loc' = [loc EXCEPT ![p] = l2]
                  /\ pc' = [pc EXCEPT ![p] = NextMember(l2)]
          ELSE IF member.contribution_balance >= remainingToPay
          THEN /\ loc' = [loc EXCEPT ![p] =
                     CallUpdateMemberBalance(
                        [l EXCEPT !.remainingToPay = remainingToPay],
                        member.id, 0 - remainingToPay, "Automatic contribution",
                        l.currentCycleId, NULL, "ps_types", "ps_failed")]
               /\ pc' = [pc EXCEPT ![p] = "umb_select"]
          ELSE LET l2 == PushDetail(l, [member_id |-> member.id,
                                        status |-> "pending",
                                        amount_due |-> remainingToPay,
                                        current_balance |-> member.contribution_balance])
               IN /\ loc' = [loc EXCEPT ![p] = l2]
                  /\ pc' = [pc EXCEPT ![p] = NextMember(l2)]
    /\ UNCHANGED <<dbvars, rowLock, nextId, faults, hist>>

\* lines 2855-2862: the detail of a member paid from the balance
PaidFromBalance(l) ==
    PushDetail(l, [member_id |-> Head(l.todo).id, status |-> "paid_from_balance",
                   amount |-> l.remainingToPay,
                   new_balance |-> Head(l.todo).contribution_balance - l.remainingToPay])

\* lines 2833-2836: SELECT * FROM cycle_types WHERE cycle_id = ?
processScheduledContributions_Types(p) ==
    /\ pc[p] = "ps_types"
    /\ LET l == [loc[p] EXCEPT !.types = CycleTypesOf(loc[p].currentCycleId)]
           l2 == IF l.types = <<>> THEN PaidFromBalance(l) ELSE l
       IN /\ loc' = [loc EXCEPT ![p] = l2]
          /\ pc' = [pc EXCEPT ![p] = IF l.types = <<>> THEN NextMember(l2)
                                      ELSE "ps_insert"]
    /\ UNCHANGED <<dbvars, rowLock, nextId, faults, hist>>

\* lines 2839-2852: the row inserted for a type: the type's whole amount, paid
ScheduledContribution(id, l, type) ==
    [ id |-> id, member |-> Head(l.todo).id, cycle |-> l.currentCycleId,
      type |-> type.type, amount |-> type.amount, expected |-> type.amount,
      status |-> "paid", method |-> "balance", reference |-> NULL ]

\* lines 2838-2862: for (const type of types) INSERT INTO contributions, one
\* row per step; after the last one the member's detail
processScheduledContributions_Insert(p) ==
    /\ pc[p] = "ps_insert"
    /\ LET l == loc[p]
           l2 == [l EXCEPT !.types = Tail(@)]
           l3 == IF l2.types = <<>> THEN PaidFromBalance(l2) ELSE l2
       IN /\ contributions' = contributions
                \cup {ScheduledContribution(nextId.contribution, l, Head(l.types))}
          /\ nextId' = [nextId EXCEPT !.contribution = @ + 1]
          /\ loc' = [loc EXCEPT ![p] = l3]
          /\ pc' = [pc EXCEPT ![p] = IF l2.types = <<>> THEN NextMember(l3)
                                      ELSE "ps_insert"]
    /\ UNCHANGED <<balance, ledger, cycles, cycleTypes, transactions, rowLock, faults,
                   hist, callLimit>>

RECURSIVE TotalCollected(_)
\* lines 2888-2890: the amounts of the details with status paid_from_balance
TotalCollected(details) ==
    IF details = <<>> THEN 0
    ELSE (IF Head(details).status = "paid_from_balance" THEN Head(details).amount
          ELSE 0) + TotalCollected(Tail(details))

\* lines 2888-2909: collected_amount = collected_amount + totalCollected when
\* it is positive, and the response
processScheduledContributions_Collected(p) ==
    /\ pc[p] = "ps_collected"
    /\ LET l == loc[p]
           totalCollected == TotalCollected(l.details)
       IN /\ cycles' = IF totalCollected > 0
                       THEN { IF c.id = l.currentCycleId
                              THEN [c EXCEPT !.collected = @ + totalCollected]
                              ELSE c : c \in cycles }
                       ELSE cycles
          /\ hist' = Append(hist,
                [ proc |-> p, op |-> "processScheduledContributions", status |-> 200,
                  cycle |-> l.currentCycleId, details |-> l.details,
                  total_collected |-> totalCollected, before |-> l.before ])
    /\ pc' = [pc EXCEPT ![p] = "idle"]
    /\ loc' = [loc EXCEPT ![p] = Loc0]
    /\ UNCHANGED <<balance, ledger, cycleTypes, contributions, transactions, rowLock,
                   nextId, faults, callLimit>>

processScheduledContributions(p) ==
    \/ processScheduledContributions_Members(p)
    \/ processScheduledContributions_Expected(p)
    \/ processScheduledContributions_Paid(p)
    \/ processScheduledContributions_Types(p)
    \/ processScheduledContributions_Insert(p)
    \/ processScheduledContributions_Collected(p)

----------------------------------------------------------------------------
(* The balance reconciler under overlapping requests *)

\* the tables before any request
InitEmpty ==
    /\ balance = [m \in Members |-> 0]
    /\ ledger = <<>>
    /\ rowLock = [m \in Members |-> 0]
    /\ cycles = {}
    /\ cycleTypes = [c \in CycleIds |-> <<>>]
    /\ contributions = {}
    /\ transactions = <<>>
    /\ nextId = [cycle |-> 1, contribution |-> 1]
    /\ pc = [p \in Procs |-> "idle"]
    /\ loc = [p \in Procs |-> Loc0]
    /\ faults = 0
    /\ hist = <<>>

InitBalance == InitEmpty /\ callLimit = MaxCalls

NextBalance ==
    \E p \in Procs :
       adjustMemberBalance(p) \/ updateMemberBalance(p) \/ updateMemberBalance_Failing(p)

SpecBalance == InitBalance /\ [][NextBalance]_vars

----------------------------------------------------------------------------
(* The cycle registry: requests one after the other, and overlapping *)

InitCyclesSeq == InitEmpty /\ callLimit = MaxCycleCalls

CycleRequest(p) ==
    \/ createOrUpdateCycle(p)
    \/ updateCycleStatus(p)
    \/ deleteCycle(p)
    \/ createContributionCycle(p)

NextCyclesSeq == \E p \in SeqProcs : CycleRequest(p)

SpecCyclesSeq == InitCyclesSeq /\ [][NextCyclesSeq]_vars

NextCycles == \E p \in Procs : CycleRequest(p)

InitCycles == InitEmpty /\ callLimit = MaxOverlappingCalls

SpecCycles == InitCycles /\ [][NextCycles]_vars

----------------------------------------------------------------------------
(* The allocation engine: payments one after the other, with failing
   statements, and overlapping *)

PayMembers == {1, 9}
PayCycles == {NULL, 2}
PayTypes == {NULL, 1}
PayAmounts == {300, 700, 1500}
\* no payment reference, or the reference of one confirmed payment
PayReferences == {NULL, 7}

\* a member's ledger before the first payment: the arrears were entered by one
\* adjustment
ArrearsLedger(m, b) ==
    IF b = 0 THEN <<>>
    ELSE <<[ member |-> m, cycle |-> NULL, contribution |-> NULL, amount |-> b,
             before |-> 0, after |-> b, description |-> "reason" ]>>

\* cycle 1 is the active cycle of the chama, with one or two types; cycle 2,
\* when the chama has it, is upcoming; member 1 owes nothing or is in arrears
InitPayTables ==
    /\ \E b \in {0, -500} :
          /\ balance = [m \in Members |-> IF m = 1 THEN b ELSE 0]
          /\ ledger = ArrearsLedger(1, b)
    /\ \E second \in BOOLEAN :
          cycles = {[id |-> 1, chama |-> 1, number |-> 1, status |-> "active",
                     collected |-> 0]}
                   \cup (IF second
                         THEN {[id |-> 2, chama |-> 1, number |-> 2,
                                status |-> "upcoming", collected |-> 0]}
                         ELSE {})
    /\ \E ts \in {<<[type |-> 1, amount |-> 1000]>>,
                  <<[type |-> 1, amount |-> 1000], [type |-> 2, amount |-> 500]>>} :
          cycleTypes = [c \in CycleIds |-> IF c = 1 THEN ts ELSE <<>>]
    /\ rowLock = [m \in Members |-> 0]
    /\ contributions = {}
    /\ transactions = <<>>
    /\ nextId = [cycle |-> 3, contribution |-> 1]
    /\ pc = [p \in Procs |-> "idle"]
    /\ loc = [p \in Procs |-> Loc0]
    /\ faults = 0
    /\ hist = <<>>

\* the steps of a payment in which no statement throws
PaySteps(p) ==
    \/ recordContribution(p)
    \/ updateMemberBalance(p)

\* a payment request and the steps of its handler
PayRequest(p) ==
    \/ \E memberId \in PayMembers, cycleId \in PayCycles, typeId \in PayTypes,
          amount \in PayAmounts, applyToBalance \in BOOLEAN,
          paymentReference \in PayReferences :
          recordContribution_Start(p, memberId, cycleId, typeId, amount,
                                   applyToBalance, paymentReference)
    \/ PaySteps(p)

\* a statement of the handler throws, and the handler's catch
PayFailure(p) ==
    \/ recordContribution_Throw(p)
    \/ handleTypeContribution_Throw(p)
    \/ updateMemberBalance_Failing(p)
    \/ recordContribution_Catch(p)

\* the payments that overlap are payments of member 1 into the active cycle
OverlappingAmounts == {300, 1500}

OverlappingPayRequest(p) ==
    \/ \E typeId \in PayTypes, amount \in OverlappingAmounts, applyToBalance \in BOOLEAN :
          recordContribution_Start(p, 1, NULL, typeId, amount, applyToBalance, NULL)
    \/ PaySteps(p)

InitPaySeq == InitPayTables /\ callLimit = MaxPayments

NextPaySeq == \E p \in SeqProcs : PayRequest(p)

SpecPaySeq == InitPaySeq /\ [][NextPaySeq]_vars

InitPayFailing == InitPayTables /\ callLimit = MaxFailingPayments

NextPayFailing == \E p \in SeqProcs : PayRequest(p) \/ PayFailure(p)

SpecPayFailing == InitPayFailing /\ [][NextPayFailing]_vars

InitPay == InitPayTables /\ callLimit = MaxOverlappingPayments

NextPay == \E p \in Procs : OverlappingPayRequest(p)

SpecPay == InitPay /\ [][NextPay]_vars

----------------------------------------------------------------------------
(* Contributions and cycles administered between payments, one request after
   the other *)

\* cycle 1 has one type and is active or completed; cycle 2, when the chama has
\* it, is upcoming; member 1 owes nothing or is in arrears
InitContribTables ==
    /\ \E b \in {0, -500} :
          /\ balance = [m \in Members |-> IF m = 1 THEN b ELSE 0]
          /\ ledger = ArrearsLedger(1, b)
    /\ \E second \in BOOLEAN, status1 \in {"active", "completed"} :
          cycles = {[id |-> 1, chama |-> 1, number |-> 1, status |-> status1,
                     collected |-> 0]}
                   \cup (IF second
                         THEN {[id |-> 2, chama |-> 1, number |-> 2,
                                status |-> "upcoming", collected |-> 0]}
                         ELSE {})
    /\ cycleTypes = [c \in CycleIds |->
                        IF c = 1 THEN <<[type |-> 1, amount |-> 1000]>> ELSE <<>>]
    /\ rowLock = [m \in Members |-> 0]
    /\ contributions = {}
    /\ transactions = <<>>
    /\ nextId = [cycle |-> 3, contribution |-> 1]
    /\ pc = [p \in Procs |-> "idle"]
    /\ loc = [p \in Procs |-> Loc0]
    /\ faults = 0
    /\ hist = <<>>

\* the payments: of member 1 into the active cycle, of an id no member has,
\* and into cycle 2
ContribPayments ==
    {[memberId |-> 1, cycleId |-> NULL, typeId |-> NULL, amount |-> a,
      applyToBalance |-> b] : a \in {300, 1500}, b \in BOOLEAN}
    \cup {[memberId |-> 9, cycleId |-> NULL, typeId |-> NULL, amount |-> 300,
           applyToBalance |-> FALSE],
          [memberId |-> 1, cycleId |-> 2, typeId |-> 1, amount |-> 300,
           applyToBalance |-> FALSE]}

\* contribution ids of the requests: the first row, and an id no row has
ContribIds == {1, 9}
\* req.body.amount of updateContribution: not sent, or a number
ContribAmounts == {<<>>, <<-100>>, <<500>>}

ContribRequest(p) ==
    \/ \E r \in ContribPayments :
          recordContribution_Start(p, r.memberId, r.cycleId, r.typeId, r.amount,
                                   r.applyToBalance, NULL)
    \/ PaySteps(p)
    \/ \E id \in ContribIds, amount \in ContribAmounts, status \in {"undefined", "paid"} :
          updateContribution_Start(p, id, amount, status)
    \/ updateContribution(p)
    \/ \E id \in ContribIds : deleteContribution_Start(p, id)
    \/ deleteContribution(p)
    \/ \E id \in ContribIds, status \in {"paid", "pending"} :
          updateContributionStatus_Start(p, id, status)
    \/ updateContributionStatus(p)
    \/ getMemberContributionStatus(p, 1)
    \/ updateCycleStatus_Start(p, 2, "active")
    \/ updateCycleStatus_Demote(p)
    \/ updateCycleStatus_Set(p)
    \/ updateCycleStatus_Respond(p)
    \/ deleteCycle_Start(p, 2)
    \/ deleteCycle_Count(p)
    \/ deleteCycle_Cancel(p)
    \/ deleteCycle_DeleteTypes(p)
    \/ deleteCycle_Delete(p)

InitContrib == InitContribTables /\ callLimit = MaxContributionCalls

NextContrib == \E p \in SeqProcs : ContribRequest(p)

SpecContrib == InitContrib /\ [][NextContrib]_vars

----------------------------------------------------------------------------
(* Payments that overlap with the deletion of a cycle *)

NextDeleteRace == \E p \in Procs : OverlappingPayRequest(p) \/ deleteCycle(p)

SpecDeleteRace == InitPay /\ [][NextDeleteRace]_vars

----------------------------------------------------------------------------
(* Scheduled runs between payments, one request at a time *)

MaxScheduledCalls == 3

\* cycle 1 is the active cycle of the chama, with two types; cycle 2, when the
\* chama has it, is upcoming; member 1 is in arrears or in credit, member 2 has
\* a zero balance or a credit
InitScheduledTables ==
    /\ \E b1 \in {-500, 500, 1500}, b2 \in {0, 1500} :
          /\ balance = [m \in Members |-> IF m = 1 THEN b1 ELSE b2]
          /\ ledger = ArrearsLedger(1, b1) \o ArrearsLedger(2, b2)
    /\ \E second \in BOOLEAN :
          cycles = {[id |-> 1, chama |-> 1, number |-> 1, status |-> "active",
                     collected |-> 0]}
                   \cup (IF second
                         THEN {[id |-> 2, chama |-> 1, number |-> 2,
                                status |-> "upcoming", collected |-> 0]}
                         ELSE {})
    /\ cycleTypes = [c \in CycleIds |->
                        IF c = 1 THEN <<[type |-> 1, amount |-> 1000],
                                        [type |-> 2, amount |-> 500]>>
                        ELSE <<>>]
    /\ rowLock = [m \in Members |-> 0]
    /\ contributions = {}
    /\ transactions = <<>>
    /\ nextId = [cycle |-> 3, contribution |-> 1]
    /\ pc = [p \in Procs |-> "idle"]
    /\ loc = [p \in Procs |-> Loc0]
    /\ faults = 0
    /\ hist = <<>>

\* the payments of member 1: type 1 in full, and more than the cycle expects
ScheduledPayments ==
    {[typeId |-> 1, amount |-> 1000, applyToBalance |-> FALSE],
     [typeId |-> NULL, amount |-> 2000, applyToBalance |-> TRUE]}

\* req.body.chamaId of a scheduled run: not sent, or the chama
ScheduledChamas == {NULL} \cup Chamas

ScheduledRequest(p) ==
    \/ \E r \in ScheduledPayments :
          recordContribution_Start(p, 1, NULL, r.typeId, r.amount, r.applyToBalance,
                                   NULL)
    \/ PaySteps(p)
    \/ \E chamaId \in ScheduledChamas : processScheduledContributions_Start(p, chamaId)
    \/ processScheduledContributions(p)

InitScheduled == InitScheduledTables /\ callLimit = MaxScheduledCalls

NextScheduled == \E p \in SeqProcs : ScheduledRequest(p)

SpecScheduled == InitScheduled /\ [][NextScheduled]_vars

----------------------------------------------------------------------------
(* Properties *)

\* the signed ledger amounts of a member, summed
LedgerSum(m) == SumSeqAmounts(SelectSeq(ledger, LAMBDA r : r.member = m))

\* the adjustments answered 200 for a member, summed
RECURSIVE AdjustedSum(_, _)
AdjustedSum(h, m) ==
    IF h = <<>> THEN 0
    ELSE (IF Head(h).op = "adjustMemberBalance" /\ Head(h).status = 200
             /\ Head(h).member = m
          THEN Head(h).amount ELSE 0) + AdjustedSum(Tail(h), m)

AllIdle == \A p \in Procs : pc[p] = "idle"

\* C1 (conservation): in every state, each member's contribution_balance equals
\* the sum of the signed amounts of the member's ledger entries, also when a
\* ledger insert has failed.
C1_Conservation == \A m \in Members : balance[m] = LedgerSum(m)

\* C2 (no lost update): once every overlapping adjustment has been answered, each
\* member's balance is the starting balance 0 plus the deltas of all the
\* adjustments that were answered with success.
C2_NoLostUpdate == AllIdle => \A m \in Members : balance[m] = AdjustedSum(hist, m)

\* C5 (balance write and ledger append are one unit): every step that changes a
\* member's committed balance appends exactly one ledger entry, for that member,
\* carrying the new balance.
C5_BalanceWithLedger ==
    [][\A m \in Members :
          balance'[m] # balance[m] =>
             /\ Len(ledger') = Len(ledger) + 1
             /\ ledger'[Len(ledger')].member = m
             /\ ledger'[Len(ledger')].after = balance'[m]]_vars

\* C8 (single active cycle after activation): when updateCycleStatus(cycle,
\* 'active') has done its writes and requests do not overlap, the cycle's chama
\* has exactly one active cycle, the target, and every other cycle that was
\* active before is completed.
C8_SingleActiveAfterActivation ==
    \A p \in Procs :
       (pc[p] = "ucs_respond" /\ loc[p].status = "active") =>
          /\ {c.id : c \in ActiveCycles(loc[p].chamaId)} = {loc[p].cycleId}
          /\ \A id \in loc[p].activeBefore \ {loc[p].cycleId} :
                \E c \in CycleRows(id) : c.status = "completed"

\* an activation completes after two cycles of the chama were active
C8_Witness ==
    \E p \in Procs :
       /\ pc[p] = "ucs_respond" /\ loc[p].status = "active"
       /\ Cardinality(loc[p].activeBefore) >= 2

\* C9 (at most one active cycle): in every state, under any interleaving of
\* createOrUpdateCycle, updateCycleStatus, deleteCycle and
\* createContributionCycle, each chama has at most one cycle with status active.
C9_AtMostOneActive == \A ch \in Chamas : Cardinality(ActiveCycles(ch)) <= 1

\* the amounts on a member's rows of a cycle that carry a type
TypedSum(rows, memberId, cycleId) ==
    SumAmounts({r \in rows : r.member = memberId /\ r.cycle = cycleId /\ r.type # NULL})

\* the rollover rows among rows
Rollovers(rows) == {r \in rows : r.method = "rollover"}

\* what the payment of frame l has put on the rows of its cycle's types
AddedToTypes(l) ==
    TypedSum(contributions, l.member, l.currentCycleId)
       - TypedSum(l.before.contributions, l.member, l.currentCycleId)

\* what the payment of frame l has added to the member's balance: clearance
\* and credit
AddedToBalance(l) == balance[l.member] - l.before.balance[l.member]

\* the rollover contributions the payment of frame l has created
RolledOver(l) == SumAmounts(Rollovers(contributions) \ Rollovers(l.before.contributions))

\* C3 (allocation completeness): when a recordContribution of amount P that ran
\* alone is about to answer 201, what it added to the rows of the cycle's types,
\* what it added to the member's balance (clearance or credit) and the rollover
\* contribution it created add up to P: nothing unallocated, nothing recorded
\* twice.
C3_AllocationComplete ==
    \A p \in SeqProcs :
       pc[p] = "rc_respond" =>
          AddedToTypes(loc[p]) + AddedToBalance(loc[p]) + RolledOver(loc[p])
             = loc[p].amount

\* C4 (payment atomicity): when a recordContribution has failed at a storage
\* step and is about to answer 500, the tables are as the request found them.
C4_PaymentAtomicity ==
    \A p \in SeqProcs : pc[p] = "rc_catch" => Tables = loc[p].before

\* the two payments answered so far went, with success, to type t of cycle c
\* for member m
TwoPaymentsToward(m, c, t) ==
    /\ Len(hist) = 2
    /\ AllIdle
    /\ \A k \in 1 .. 2 :
          /\ hist[k].op = "recordContribution" /\ hist[k].status = 201
          /\ hist[k].member = m /\ hist[k].currentCycleId = c
          /\ hist[k].typeId = t /\ ~hist[k].applyToBalance

\* C6 (type accumulation): after two successive payments of X and Y toward the
\* same (member, cycle, type) with X + Y within the type's expected amount there
\* is exactly one contribution row for the triple, its amount is X + Y and it
\* is paid exactly when X + Y is the expected amount.
C6_TypeAccumulation ==
    \A m \in Members, c \in CycleIds, t \in PayTypes \ {NULL} :
       LET expected == ExpectedOf(cycleTypes[c], t)
           total == hist[1].amount + hist[2].amount
           rows == ContributionsOf(contributions, m, c, t)
       IN (TwoPaymentsToward(m, c, t) /\ total <= expected) =>
             /\ Cardinality(rows) = 1
             /\ \A r \in rows :
                   /\ r.amount = total
                   /\ r.status = IF total = expected THEN "paid" ELSE "partial"

\* 300 then 700 toward a type expecting 1000: one row, amount 1000, paid
C6_Witness ==
    /\ TwoPaymentsToward(1, 1, 1)
    /\ hist[1].amount = 300 /\ hist[2].amount = 700
    /\ \E r \in contributions : r.type = 1 /\ r.amount = 1000 /\ r.status = "paid"

\* C7 (one row per triple): in every state there is at most one contribution
\* row per (member, cycle, type) with a type that is not null.
C7_OneRowPerTriple ==
    \A r1, r2 \in contributions :
       (r1.type # NULL /\ r1.member = r2.member /\ r1.cycle = r2.cycle
          /\ r1.type = r2.type) => r1.id = r2.id

\* what the types of the cycle of frame l lacked when the request arrived
RECURSIVE Shortfall(_, _)
Shortfall(l, k) ==
    IF k = 0 THEN 0
    ELSE Max(0, l.cycleTypesRead[k].amount
                 - SumAmounts(ContributionsOf(l.before.contributions, l.member,
                                  l.currentCycleId, l.cycleTypesRead[k].type)))
         + Shortfall(l, k - 1)

\* C10 (clearance, then the cycle's types): when a recordContribution with
\* applyToBalance on, no type, arrears a > 0 and P > a is about to answer 201, the
\* balance has been cleared by a to 0 and min(P - a, the types' shortfall) is on
\* the rows of the cycle's types.
C10_ClearanceThenTypes ==
    \A p \in SeqProcs :
       LET l == loc[p]
           a == 0 - l.before.balance[l.member]
       IN (pc[p] = "rc_respond" /\ l.applyToBalance /\ l.typeId = NULL /\ a > 0
              /\ l.amount > a) =>
             /\ l.balanceAdjustment >= a
             /\ AddedToTypes(l) = Min(l.amount - a, Shortfall(l, Len(l.cycleTypesRead)))

\* the ledger entries written since the request of frame l arrived
NewLedger(l) == SubSeq(ledger, Len(l.before.ledger) + 1, Len(ledger))

\* what the payment of frame l has put toward the member's arrears
Cleared(l) ==
    SumSeqAmounts(SelectSeq(NewLedger(l), LAMBDA r : r.description = "Balance clearance"))

\* what the payment of frame l had left after the arrears and the cycle's types
Overflow(l) == l.amount - AddedToTypes(l) - Cleared(l)

\* the rollover contributions created since the request of frame l arrived
NewRollovers(l) == Rollovers(contributions) \ Rollovers(l.before.contributions)

\* the cycle row of frame l
CurrentCycle(l) == CHOOSE c \in cycles : c.id = l.currentCycleId

\* the cycles of the chama that can take a rollover from the cycle of frame l
Eligible(l) ==
    {c \in cycles : /\ c.chama = CurrentCycle(l).chama
                    /\ c.number > CurrentCycle(l).number
                    /\ c.status \in {"upcoming", "active"}}

\* the member's rows of the cycle of frame l that carry a type are all paid
TypesPaid(l) ==
    \A r \in contributions :
       (r.member = l.member /\ r.cycle = l.currentCycleId /\ r.type # NULL)
          => r.status = "paid"

\* C11 (overpayment, no next cycle): when a recordContribution of amount P that
\* exceeds what the member still owed the cycle's types, O, is about to answer
\* 201 and the chama has no upcoming or active cycle with a greater
\* cycle_number, the types have received O and are paid, and the member's
\* balance is the old balance plus P - O.
C11_OverpaymentCredit ==
    \A p \in SeqProcs :
       LET l == loc[p]
           O == Shortfall(l, Len(l.cycleTypesRead))
       IN (pc[p] = "rc_respond" /\ l.amount > O /\ Eligible(l) = {}) =>
             /\ AddedToTypes(l) = O
             /\ TypesPaid(l)
             /\ balance[l.member] = l.before.balance[l.member] + (l.amount - O)

C12_WitnessCredit ==
    \E p \in SeqProcs :
       /\ pc[p] = "rc_respond" /\ Overflow(loc[p]) > 0 /\ Eligible(loc[p]) = {}
       /\ AddedToBalance(loc[p]) > 0

\* the rows written by the type-allocation path
TypeRows == {r \in contributions : r.type # NULL /\ r.method = "cash"}

\* C13 (status derivation): every contribution row written by the
\* type-allocation path is paid exactly when its accumulated amount is its
\* expected amount within 0.01, partial when the amount is above 0 and below the
\* expected amount, and pending when the amount is 0.
C13_StatusDerivation ==
    \A r \in TypeRows :
       /\ r.status = "paid" <=> Abs(r.amount - r.expected) * 100 < 1
       /\ (r.amount > 0 /\ r.amount < r.expected) => r.status = "partial"
       /\ r.amount = 0 => r.status = "pending"

\* a row that a second payment brought from partial to paid, next to a row that
\* is partial
C13_Witness ==
    /\ Len(hist) = 2
    /\ \E r \in TypeRows : r.status = "paid" /\ r.amount = hist[1].amount + 300
    /\ \E r \in TypeRows : r.status = "partial"

\* the request of frame l repeats a payment that was answered 201: the same
\* payment reference, member, cycle, type, amount and applyToBalance
Repeats(l) ==
    /\ l.op = "recordContribution"
    /\ l.paymentReference # NULL
    /\ \E k \in DOMAIN hist :
          /\ hist[k].op = "recordContribution" /\ hist[k].status = 201
          /\ hist[k].paymentReference = l.paymentReference
          /\ hist[k].member = l.member /\ hist[k].cycleId = l.cycleId
          /\ hist[k].typeId = l.typeId /\ hist[k].amount = l.amount
          /\ hist[k].applyToBalance = l.applyToBalance

\* C14 (exactly-once payment application): while a recordContribution that
\* repeats a recorded payment (same paymentReference) is served, contributions,
\* balances, ledger, cycles' collected_amount and the payment records stay as
\* they were after the payment was recorded once.
C14_ExactlyOnce ==
    \A p \in SeqProcs : Repeats(loc[p]) => Tables = loc[p].before

Answered == Len(hist') = Len(hist) + 1

LastAnswer == hist'[Len(hist')]

\* process p takes a recordContribution request in this step
TakesPayment(p) ==
    /\ pc[p] = "idle"
    /\ \/ pc'[p] = "rc_cycle"
       \/ Answered /\ LastAnswer.proc = p /\ LastAnswer.op = "recordContribution"

\* the request process p takes in this step
Taken(p) == IF Answered THEN LastAnswer ELSE loc'[p]

\* C16 (no active cycle): a recordContribution without cycleId, for a member of
\* a chama that has no cycle with status active, is answered 400 at once and
\* writes nothing: contributions, ledger, balances, cycles and transactions
\* stay as they are.
C16_NoActiveCycle ==
    [][ \A p \in SeqProcs :
           (/\ TakesPayment(p)
            /\ Taken(p).member \in Members /\ Taken(p).cycleId = NULL
            /\ ~ \E c \in cycles : c.chama = MemberChama[Taken(p).member]
                                   /\ c.status = "active")
           => /\ Answered /\ LastAnswer.status = 400
              /\ pc'[p] = "idle"
              /\ Tables' = Tables ]_vars

\* a payment without cycleId answered 400, after a payment that was recorded, in
\* a chama that has an upcoming cycle and no active cycle
C16_Witness ==
    /\ hist # <<>>
    /\ hist[Len(hist)].op = "recordContribution"
    /\ hist[Len(hist)].status = 400 /\ hist[Len(hist)].cycleId = NULL
    /\ \A c \in cycles : c.status # "active"
    /\ \E c \in cycles : c.status = "upcoming"
    /\ \E k \in DOMAIN hist : hist[k].op = "recordContribution" /\ hist[k].status = 201

\* C17 (nonexistent entity): a request is taken up for processing only if the
\* member, contribution or cycle it names exists, a payment goes past the
\* lookup of its cycle only if the cycle exists, and a step that answers 404,
\* or 403 to a payment, changes no balance, ledger entry, cycle, contribution
\* or transaction; a payment answered 404 has written nothing since it arrived.
C17_NonexistentNoMutation ==
    [][ \A p \in SeqProcs :
           /\ (pc[p] = "idle" /\ pc'[p] # "idle") =>
                 /\ loc'[p].op = "recordContribution" => loc'[p].member \in Members
                 /\ loc'[p].op \in {"updateContribution", "deleteContribution",
                                    "updateContributionStatus"}
                       => loc'[p].row[1] \in contributions
                 /\ loc'[p].op \in {"updateCycleStatus", "deleteCycle"}
                       => \E c \in cycles : c.id = loc'[p].cycleId
           /\ (pc[p] = "rc_cycle" /\ pc'[p] = "rc_balance")
                 => \E c \in cycles : c.id = loc[p].currentCycleId
           /\ (Answered /\ LastAnswer.proc = p
                 /\ \/ LastAnswer.status = 404
                    \/ LastAnswer.status = 403 /\ LastAnswer.op = "recordContribution")
                 => /\ Tables' = Tables
                    /\ pc[p] = "rc_cycle" => Tables = loc[p].before ]_vars

\* an activation of a cycle that does not exist was answered 404 and a cycle is
\* active; a payment of an id no member has was answered 403
C17_Witness ==
    /\ \E k \in DOMAIN hist : hist[k].op = "updateCycleStatus" /\ hist[k].status = 404
    /\ \E k \in DOMAIN hist : hist[k].op = "recordContribution" /\ hist[k].status = 403
    /\ \E c \in cycles : c.status = "active"
    /\ contributions # {}

\* C18 (activation is idempotent): when updateCycleStatus(cycle, 'active') on
\* the cycle that was the chama's active cycle is about to answer, every cycle
\* has the status it had before the request, so that a second application in a
\* row leaves the state of the first.
C18_ActivationIdempotent ==
    \A p \in SeqProcs :
       (/\ pc[p] = "ucs_respond" /\ loc[p].status = "active"
        /\ loc[p].activeBefore = {loc[p].cycleId})
       => cycles = loc[p].before.cycles

\* the active cycle was activated again, in a chama with another cycle
C18_Witness ==
    \E p \in SeqProcs :
       /\ pc[p] = "ucs_respond" /\ loc[p].status = "active"
       /\ loc[p].activeBefore = {loc[p].cycleId}
       /\ Cardinality(cycles) = 2
       /\ \E c \in cycles : c.id = loc[p].cycleId /\ c.status = "active"

\* C19 (cycle_number is unique per chama): in every state no two cycles of the
\* same chama have the same cycle_number, also while cycle creations overlap.
C19_CycleNumberUnique ==
    \A c1, c2 \in cycles :
       (c1.chama = c2.chama /\ c1.number = c2.number) => c1.id = c2.id

\* C20 (a cycle with contributions is never deleted): in every state every
\* contribution's cycle row exists, also while deleteCycle overlaps with a
\* recordContribution into the cycle.
C20_NoOrphanContribution ==
    \A r \in contributions : \E c \in cycles : c.id = r.cycle

\* what the member still owes the first k types of the cycle: per type, the
\* expected amount less the amounts of the member's rows of the type, floored
\* at 0
RECURSIVE OwedToTypes(_, _, _)
OwedToTypes(memberId, cycleId, k) ==
    IF k = 0 THEN 0
    ELSE Max(0, cycleTypes[cycleId][k].amount
                 - SumAmounts(ContributionsOf(contributions, memberId, cycleId,
                                              cycleTypes[cycleId][k].type)))
         + OwedToTypes(memberId, cycleId, k - 1)

\* C21 (outstanding amount): the total outstanding amount that
\* getMemberContributionStatus has just reported for the active cycle is the
\* sum over the cycle's types of max(0, expected - paid toward the type).
C21_OutstandingReport ==
    (/\ AllIdle /\ hist # <<>>
     /\ hist[Len(hist)].op = "getMemberContributionStatus"
     /\ hist[Len(hist)].cycle # NULL)
    => hist[Len(hist)].total_outstanding
          = OwedToTypes(hist[Len(hist)].member, hist[Len(hist)].cycle,
                        Len(cycleTypes[hist[Len(hist)].cycle]))

\* the amounts of the member's rows of type k of the cycle of frame l, now
PaidToward(l, k) ==
    SumAmounts(ContributionsOf(contributions, l.member, l.currentCycleId,
                               l.cycleTypesRead[k].type))

\* what type k of the cycle has received from the payment of frame l
ReceivedBy(l, k) ==
    PaidToward(l, k)
       - SumAmounts(ContributionsOf(l.before.contributions, l.member,
                                    l.currentCycleId, l.cycleTypesRead[k].type))

\* type k of the cycle of frame l is fully covered
Covered(l, k) == PaidToward(l, k) = l.cycleTypesRead[k].amount

C23_NoOverClearance ==
    [][ \A p \in Procs :
           (pc[p] = "umb_commit" /\ pc'[p] = "rc_cleared") =>
              /\ loc[p].uAmount <= Max(0, 0 - balance[loc[p].uMember])
              /\ balance'[loc[p].uMember] <= 0 ]_vars

\* C24 (cycle state machine): when updateCycleStatus is about to answer, no
\* cycle that was completed or cancelled when the request arrived is upcoming
\* or active.
C24_TerminalStatuses ==
    \A p \in SeqProcs :
       pc[p] = "ucs_respond" =>
          \A c \in loc[p].before.cycles, d \in cycles :
             (c.id = d.id /\ c.status \in {"completed", "cancelled"})
                => d.status \notin {"upcoming", "active"}

\* C25 (collected_amount is the sum of the rows): once every request has been
\* answered, each cycle's collected_amount is the sum of the amounts of the
\* cycle's contribution rows.
C25_CollectedIsSumOfRows ==
    AllIdle =>
       \A c \in cycles :
          c.collected = SumAmounts({r \in contributions : r.cycle = c.id})

\* C26 (a type never receives more than it expects): in every state, for every
\* member and every type of every cycle, the amounts of the member's rows of
\* the type add up to at most the type's expected amount.
C26_TypeWithinExpected ==
    \A m \in Members, c \in CycleIds :
       \A k \in DOMAIN cycleTypes[c] :
          SumAmounts(ContributionsOf(contributions, m, c, cycleTypes[c][k].type))
             <= cycleTypes[c][k].amount

\* the ledger entries of a member, in commit order
LedgerOf(m) == SelectSeq(ledger, LAMBDA r : r.member = m)

\* C27 (ledger chain continuity): in every state reached by overlapping
\* updateMemberBalance calls none of whose statements failed, every ledger entry
\* has balance_after = balance_before + amount, each entry of a member starts
\* from the balance_after of the member's previous entry, and the member's last
\* entry ends at the member's current balance.
C27_LedgerChain ==
    faults = 0 =>
       /\ \A i \in DOMAIN ledger :
             ledger[i].after = ledger[i].before + ledger[i].amount
       /\ \A m \in Members :
             LET s == LedgerOf(m) IN
               /\ \A i \in 2..Len(s) : s[i].before = s[i - 1].after
               /\ s # <<>> => s[Len(s)].after = balance[m]

\* the answer before the deletion served by p is a payment recorded whole in a
\* new row of one type, and p deletes that row
DeletesLastPayment(p) ==
    /\ loc[p].op = "deleteContribution"
    /\ hist # <<>>
    /\ LET a == hist[Len(hist)]
           row == loc[p].row[1]
       IN /\ a.op = "recordContribution" /\ a.status = 201
          /\ a.applied_to_balance = 0 /\ a.rollover_amount = 0
          /\ a.remaining_unallocated = 0
          /\ a.contributionIds = <<row.id>>
          /\ row.amount = a.amount
          /\ \A r \in a.before.contributions : r.id # row.id

\* C28 (record-then-delete round trip): when deleteContribution answers for the
\* row in which the payment answered just before was recorded whole (one type,
\* no clearance, no overflow), the member's balance and the collected_amount of
\* every cycle are what they were before the payment.
C28_RecordThenDelete ==
    [][ \A p \in SeqProcs :
           (pc[p] \in {"del_collected", "del_delete"} /\ pc'[p] = "idle"
            /\ DeletesLastPayment(p)) =>
              LET a == hist[Len(hist)]
                  m == loc[p].row[1].member
              IN /\ balance'[m] = a.before.balance[m]
                 /\ \A c \in cycles', d \in a.before.cycles :
                       c.id = d.id => c.collected = d.collected ]_vars

\* the balance credits updateContributionStatus has made for a contribution
MarkedPaidCredits(id) ==
    SelectSeq(ledger, LAMBDA r : r.description = "Contribution marked as paid"
                                    /\ r.contribution = id)

\* the contribution was written by a recordContribution that was answered 201,
\* which added the payment to the cycle's collected_amount
CreditedWhenRecorded(id) ==
    \E k \in DOMAIN hist :
       /\ hist[k].op = "recordContribution" /\ hist[k].status = 201
       /\ \E i \in DOMAIN hist[k].contributionIds : hist[k].contributionIds[i] = id

\* C29 (a contribution is credited at most once): in every state,
\* updateContributionStatus has credited each contribution's amount at most
\* once, and not at all when the amount was already credited by the
\* recordContribution that recorded the contribution.
C29_CreditedAtMostOnce ==
    \A id \in ContribIds :
       /\ Len(MarkedPaidCredits(id)) <= 1
       /\ CreditedWhenRecorded(id) => MarkedPaidCredits(id) = <<>>

\* an earlier run for the cycle has paid the member's contribution from the
\* member's balance
PaidByEarlierRun(m, cycleId) ==
    \E k \in DOMAIN hist :
       /\ hist[k].op = "processScheduledContributions" /\ hist[k].status = 200
       /\ hist[k].cycle = cycleId
       /\ \E j \in DOMAIN hist[k].details :
             /\ hist[k].details[j].status = "paid_from_balance"
             /\ hist[k].details[j].member_id = m

\* C30 (scheduled deduction): when a run of processScheduledContributions
\* answers, for every member it reports as paid_from_balance the balance went
\* down by the sum of the amounts of the rows the run inserted for the member,
\* which is the amount the run adds to collected_amount for the member, and the
\* balance is not negative; and for every member an earlier run for the cycle
\* paid from the balance, the run left the balance and the rows as they were.
C30_ScheduledDeduction ==
    [][ \A p \in SeqProcs :
           (pc[p] = "ps_collected" /\ pc'[p] = "idle") =>
              LET l == loc[p]
                  b == l.before
                  inserted(m) == {r \in contributions' \ b.contributions : r.member = m}
              IN /\ \A k \in DOMAIN l.details :
                       l.details[k].status = "paid_from_balance" =>
                          LET m == l.details[k].member_id IN
                            /\ b.balance[m] - balance'[m] = SumAmounts(inserted(m))
                            /\ b.balance[m] - balance'[m] = l.details[k].amount
                            /\ balance'[m] >= 0
                 /\ \A m \in Members :
                       PaidByEarlierRun(m, l.currentCycleId) =>
                          /\ balance'[m] = b.balance[m]
                          /\ inserted(m) = {} ]_vars

====
